---- MODULE Spec2Model ----
(***************************************************************************)
(* A model of seidart's material routines                                  *)
(* (src/src/seidart/routines/materials.py): the tensor builders, the       *)
(* Voigt-Reuss-Hill homogenisation loops of get_seismic and get_perm, the  *)
(* orientation reader and the high-frequency stability check.              *)
(*                                                                         *)
(* Numbers.  The program computes in binary64.  The model computes in      *)
(* exact rational arithmetic: a number is a pair <<n, d>> in lowest terms  *)
(* with d > 0.  TLC's integers are 32 bits wide, so the inputs are drawn   *)
(* from small sets and every empirical constant that does not fit is held  *)
(* to the number of digits stated at its definition.                       *)
(*                                                                         *)
(* Units.  Temperature is in Celsius and density in kg/m3, as in the       *)
(* source.  Velocities are held in km/s (the catalogue's m/s over 1000)    *)
(* and stiffness in GPa, so density * velocity^2 carries the factor        *)
(* 1/1000; conductivity is held in units of 1e-7 S/m, which is the one     *)
(* unit in which every entry of the catalogue, from 1e-16 to 1e2 S/m, is   *)
(* a number TLC can hold.                                                  *)
(***************************************************************************)
EXTENDS Integers, Sequences, FiniteSets, TLC

(***************************************************************************)
(* Exact rational arithmetic (the model's stand-in for Python floats).     *)
(***************************************************************************)
Abs(x) == IF x < 0 THEN -x ELSE x

RECURSIVE GCD(_, _)
GCD(a, b) == IF b = 0 THEN a ELSE GCD(b, a % b)

Rat(n, d) ==
  LET g == GCD(Abs(n), Abs(d))
      s == IF d < 0 THEN -1 ELSE 1
  IN  <<(s * n) \div g, (s * d) \div g>>

Zero == <<0, 1>>
One == <<1, 1>>
Int2Rat(k) == <<k, 1>>

RNeg(a) == <<-a[1], a[2]>>

RAdd(a, b) ==
  IF a[1] = 0 THEN b
  ELSE IF b[1] = 0 THEN a
  ELSE LET g == GCD(a[2], b[2])
       IN  Rat(a[1] * (b[2] \div g) + b[1] * (a[2] \div g), (a[2] \div g) * b[2])

RSub(a, b) == RAdd(a, RNeg(b))

RMul(a, b) ==
  IF a[1] = 0 \/ b[1] = 0 THEN Zero
  ELSE LET g1 == GCD(Abs(a[1]), b[2])
           g2 == GCD(Abs(b[1]), a[2])
       IN  <<(a[1] \div g1) * (b[1] \div g2), (a[2] \div g2) * (b[2] \div g1)>>

\* a / b for b # 0
RDiv(a, b) == RMul(a, IF b[1] < 0 THEN <<-b[2], -b[1]>> ELSE <<b[2], b[1]>>)

RSq(a) == RMul(a, a)

\* The sign of a - b: -1, 0 or 1.
RCmp(a, b) ==
  LET x == RSub(a, b) IN IF x[1] < 0 THEN -1 ELSE IF x[1] = 0 THEN 0 ELSE 1

RLt(a, b) == RCmp(a, b) < 0
RLe(a, b) == RCmp(a, b) <= 0
RGt(a, b) == RCmp(a, b) > 0
RMax(a, b) == IF RLt(a, b) THEN b ELSE a
RMin(a, b) == IF RLt(b, a) THEN b ELSE a

(***************************************************************************)
(* Matrices: an n-by-n array is a function [0..n-1 -> [0..n-1 -> number]], *)
(* indexed from 0 as numpy indexes it.                                     *)
(***************************************************************************)
Idx(n) == 0 .. (n - 1)

\* np.zeros([n,n])
Zeros(n) == [i \in Idx(n) |-> [j \in Idx(n) |-> Zero]]

\* np.eye(n,n)
Eye(n) == [i \in Idx(n) |-> [j \in Idx(n) |-> IF i = j THEN One ELSE Zero]]

\* diag(a, b, c)
Diag3(a, b, c) ==
  [i \in Idx(3) |-> [j \in Idx(3) |->
     IF i # j THEN Zero ELSE IF i = 0 THEN a ELSE IF i = 1 THEN b ELSE c]]

Dim(A) == Cardinality(DOMAIN A)

RECURSIVE DotFrom(_, _, _, _, _)
DotFrom(A, B, i, j, k) ==
  IF k = Dim(B) THEN Zero
  ELSE RAdd(RMul(A[i][k], B[k][j]), DotFrom(A, B, i, j, k + 1))

\* np.matmul(A, B)
MatMul(A, B) == [i \in DOMAIN A |-> [j \in DOMAIN A |-> DotFrom(A, B, i, j, 0)]]

\* A.T
Transpose(A) == [i \in DOMAIN A |-> [j \in DOMAIN A |-> A[j][i]]]

MatAdd(A, B) == [i \in DOMAIN A |-> [j \in DOMAIN A |-> RAdd(A[i][j], B[i][j])]]

\* A / k and k * A for a scalar k
MatDivInt(A, k) == [i \in DOMAIN A |-> [j \in DOMAIN A |-> RDiv(A[i][j], Int2Rat(k))]]
MatScale(k, A) == [i \in DOMAIN A |-> [j \in DOMAIN A |-> RMul(k, A[i][j])]]

(***************************************************************************)
(* np.linalg.inv: the inverse, by Gauss-Jordan elimination on [A | I].     *)
(* The inverse of a matrix is unique, so the pivoting order LAPACK uses    *)
(* does not show in exact arithmetic.  A singular matrix raises            *)
(* LinAlgError, which the model writes as the empty array.                 *)
(***************************************************************************)
LinAlgError == <<>>

Augment(A) ==
  LET n == Dim(A)
  IN  [i \in Idx(n) |-> [j \in Idx(2 * n) |->
         IF j < n THEN A[i][j] ELSE IF j - n = i THEN One ELSE Zero]]

PivotRows(W, k, n) == {i \in k .. (n - 1) : W[i][k] # Zero}

MinOf(S) == CHOOSE x \in S : \A y \in S : x <= y

SwapRows(W, a, b) ==
  [i \in DOMAIN W |-> IF i = a THEN W[b] ELSE IF i = b THEN W[a] ELSE W[i]]

Eliminate(W, k) ==
  LET prow == [j \in DOMAIN W[k] |-> RDiv(W[k][j], W[k][k])]
  IN  [i \in DOMAIN W |->
         IF i = k THEN prow
         ELSE IF W[i][k] = Zero THEN W[i]
         ELSE [j \in DOMAIN W[i] |-> RSub(W[i][j], RMul(W[i][k], prow[j]))]]

RECURSIVE GaussJordan(_, _, _)
GaussJordan(W, k, n) ==
  IF k = n THEN W
  ELSE IF PivotRows(W, k, n) = {} THEN LinAlgError
  ELSE GaussJordan(Eliminate(SwapRows(W, k, MinOf(PivotRows(W, k, n))), k), k + 1, n)

Inv(A) ==
  LET n == Dim(A)
      W == GaussJordan(Augment(A), 0, n)
  IN  IF W = LinAlgError THEN LinAlgError
      ELSE [i \in Idx(n) |-> [j \in Idx(n) |-> W[i][j + n]]]

(***************************************************************************)
(* Euler angles.  An angle is one of a few named values whose cosine and   *)
(* sine are rational, so that np.cos and np.sin are exact: the multiples   *)
(* of pi/2 and the angle of the 3-4-5 triangle.                            *)
(***************************************************************************)
Angles == {"0", "pi/2", "pi", "3pi/2", "atan(4/3)"}
RightAngles == {"0", "pi/2", "pi", "3pi/2"}

\* np.cos
Cos(a) ==
  CASE a = "0" -> One
    [] a = "pi/2" -> Zero
    [] a = "pi" -> <<-1, 1>>
    [] a = "3pi/2" -> Zero
    [] a = "atan(4/3)" -> <<3, 5>>

\* np.sin
Sin(a) ==
  CASE a = "0" -> Zero
    [] a = "pi/2" -> One
    [] a = "pi" -> Zero
    [] a = "3pi/2" -> <<-1, 1>>
    [] a = "atan(4/3)" -> <<4, 5>>

\* A 3-by-3 array from its rows.
Rows3(r0, r1, r2) ==
  [i \in Idx(3) |-> [j \in Idx(3) |->
     (IF i = 0 THEN r0 ELSE IF i = 1 THEN r1 ELSE r2)[j + 1]]]

\* rotator_zxz with the sine and the cosine exchanged in the rows of C.
rotator_zxz_SinCosSwapped(eul) ==
  LET D == Rows3(<<Cos(eul[1]), RNeg(Sin(eul[1])), Zero>>,
                 <<Sin(eul[1]), Cos(eul[1]), Zero>>,
                 <<Zero, Zero, One>>)
      C == Rows3(<<One, Zero, Zero>>,
                 <<Zero, Sin(eul[2]), RNeg(Cos(eul[2]))>>,
                 <<Zero, Cos(eul[2]), Sin(eul[2])>>)
      B == Rows3(<<Cos(eul[3]), RNeg(Sin(eul[3])), Zero>>,
                 <<Sin(eul[3]), Cos(eul[3]), Zero>>,
                 <<Zero, Zero, One>>)
  IN  MatMul(D, MatMul(C, B))

\* rotator_zxz(eul): eul is <<eul[0], eul[1], eul[2]>>.
rotator_zxz(eul) ==
  LET D == Rows3(<<Cos(eul[1]), RNeg(Sin(eul[1])), Zero>>,
                 <<Sin(eul[1]), Cos(eul[1]), Zero>>,
                 <<Zero, Zero, One>>)
      C == Rows3(<<One, Zero, Zero>>,
                 <<Zero, Cos(eul[2]), RNeg(Sin(eul[2]))>>,
                 <<Zero, Sin(eul[2]), Cos(eul[2])>>)
      B == Rows3(<<Cos(eul[3]), RNeg(Sin(eul[3])), Zero>>,
                 <<Sin(eul[3]), Cos(eul[3]), Zero>>,
                 <<Zero, Zero, One>>)
  IN  MatMul(D, MatMul(C, B))

Two == <<2, 1>>

\* Row i (0..2) of the Bond matrix.
BondUpper(R, i) ==
  << RSq(R[i][0]), RSq(R[i][1]), RSq(R[i][2]),
     RMul(Two, RMul(R[i][1], R[i][2])),
     RMul(Two, RMul(R[i][2], R[i][0])),
     RMul(Two, RMul(R[i][0], R[i][1])) >>

\* Rows 3..5 of the Bond matrix, built from rows a and b of R.
BondLower(R, a, b) ==
  << RMul(R[a][0], R[b][0]), RMul(R[a][1], R[b][1]), RMul(R[a][2], R[b][2]),
     RAdd(RMul(R[a][1], R[b][2]), RMul(R[a][2], R[b][1])),
     RAdd(RMul(R[a][2], R[b][0]), RMul(R[a][0], R[b][2])),
     RAdd(RMul(R[a][0], R[b][1]), RMul(R[a][1], R[b][0])) >>

\* bond(R)
bond(R) ==
  LET rows == << BondUpper(R, 0), BondUpper(R, 1), BondUpper(R, 2),
                 BondLower(R, 1, 2), BondLower(R, 2, 0), BondLower(R, 0, 1) >>
  IN  [i \in Idx(6) |-> [j \in Idx(6) |-> rows[i + 1][j + 1]]]

(***************************************************************************)
(* The Voigt-Reuss-Hill loop of get_seismic (6-by-6, through the Bond      *)
(* matrix) and of get_perm (3-by-3, through the rotation itself).  euler   *)
(* is the sequence of Euler triples read_ang returned, p its length.       *)
(***************************************************************************)
\* The transform of orientation k: M = bond(R) for a stiffness, R for a
\* second-rank tensor.
Transform(n, eul) == IF n = 6 THEN bond(rotator_zxz(eul)) ELSE rotator_zxz(eul)

\* cvoigt after orientations k..p of the loop, starting from acc.
RECURSIVE VoigtSum(_, _, _, _)
VoigtSum(C, euler, k, acc) ==
  IF k > Len(euler) THEN acc
  ELSE LET M == Transform(Dim(C), euler[k])
       IN  VoigtSum(C, euler, k + 1, MatAdd(acc, MatMul(M, MatMul(C, Transpose(M)))))

\* creuss after orientations k..p of the loop, starting from acc.
RECURSIVE ReussSum(_, _, _, _)
ReussSum(S, euler, k, acc) ==
  IF k > Len(euler) THEN acc
  ELSE LET N == Inv(Transform(Dim(S), euler[k]))
       IN  ReussSum(S, euler, k + 1, MatAdd(acc, MatMul(N, MatMul(S, Transpose(N)))))

Half == <<1, 2>>

\* cvoigt /= p
VoigtEstimate(C, euler) == MatDivInt(VoigtSum(C, euler, 1, Zeros(Dim(C))), Len(euler))

\* creuss /= p and creuss = np.linalg.inv(creuss), for S = np.linalg.inv(C)
ReussEstimate(S, euler) ==
  IF S = LinAlgError THEN LinAlgError
  ELSE Inv(MatDivInt(ReussSum(S, euler, 1, Zeros(Dim(S))), Len(euler)))

\* (cvoigt + creuss)/2, with the two estimates it averages
HillAverage(cvoigt, creuss) ==
  IF creuss = LinAlgError THEN LinAlgError
  ELSE [voigt |-> cvoigt, reuss |-> creuss,
        hill |-> MatScale(Half, MatAdd(cvoigt, creuss))]

\* The three estimates the loop computes for the tensor C, or LinAlgError
\* when np.linalg.inv meets a singular matrix.
Homogenize(C, euler) ==
  HillAverage(VoigtEstimate(C, euler), ReussEstimate(Inv(C), euler))

\* LameTensor without the statement C[1,1] = C[1,1] + mu.
LameTensor_NoSecondMu(lam, mu) ==
  [i \in Idx(6) |-> [j \in Idx(6) |->
     IF i = j /\ i < 3 /\ i # 1 THEN RAdd(RAdd(lam, mu), mu)
     ELSE IF i = j /\ i = 1 THEN RAdd(lam, mu)
     ELSE IF i = j THEN mu
     ELSE IF i < 3 /\ j < 3 THEN lam
     ELSE Zero]]

\* C[0:3,0:3] = lam, mu added along the diagonal, then mu added again
\* to C[0,0], C[1,1], C[2,2].
LameTensor(lam, mu) ==
  [i \in Idx(6) |-> [j \in Idx(6) |->
     IF i = j /\ i < 3 THEN RAdd(RAdd(lam, mu), mu)
     ELSE IF i = j THEN mu
     ELSE IF i < 3 /\ j < 3 THEN lam
     ELSE Zero]]

(***************************************************************************)
(* isotropic_materials: name -> <<Vp_min, Vp_max, Vs_min, Vs_max,          *)
(* Rel_Perm_min, Rel_Perm_max, Conductivity_min, Conductivity_max>>        *)
(* (velocities in km/s, conductivities in 1e-7 S/m).                       *)
(***************************************************************************)
Limits(vp0, vp1, vs0, vs1, e0, e1, s0, s1) == <<vp0, vp1, vs0, vs1, e0, e1, s0, s1>>

isotropic_materials ==
  [ air |-> Limits(<<343, 1000>>, <<343, 1000>>, Zero, Zero,
                   One, One, <<1, 1000000000>>, <<1, 100000000>>),
    ice1h |-> Limits(<<17, 5>>, <<19, 5>>, <<17, 10>>, <<19, 10>>,
                     <<31, 10>>, <<161, 50>>, <<1, 1>>, <<10, 1>>),
    snow |-> Limits(<<1, 10>>, <<2, 1>>, <<1, 20>>, <<1, 2>>,
                    One, <<70, 1>>, <<1, 100>>, <<1000, 1>>),
    soil |-> Limits(<<3, 10>>, <<7, 10>>, <<1, 10>>, <<3, 10>>,
                    <<39, 10>>, <<147, 5>>, <<100000, 1>>, <<1000000, 1>>),
    water |-> Limits(<<29, 20>>, <<3, 2>>, Zero, Zero,
                     <<2009, 25>>, <<2009, 25>>, <<55, 1>>, <<500000, 1>>),
    oil |-> Limits(<<6, 5>>, <<5, 4>>, Zero, Zero,
                   <<207, 100>>, <<107, 50>>, <<57, 100>>, <<21, 10>>),
    dry_sand |-> Limits(<<2, 5>>, <<6, 5>>, <<1, 10>>, <<1, 2>>,
                        <<29, 10>>, <<47, 10>>, <<10000, 1>>, <<10000, 1>>),
    wet_sand |-> Limits(<<3, 2>>, <<2, 1>>, <<2, 5>>, <<3, 5>>,
                        <<29, 10>>, <<105, 1>>, <<2500, 1>>, <<12000, 1>>),
    granite |-> Limits(<<9, 2>>, <<6, 1>>, <<5, 2>>, <<33, 10>>,
                       <<24, 5>>, <<189, 10>>, <<400, 1>>, <<2500, 1>>),
    gneiss |-> Limits(<<22, 5>>, <<26, 5>>, <<27, 10>>, <<16, 5>>,
                      <<17, 2>>, <<17, 2>>, <<2500, 1>>, <<25000, 1>>),
    basalt |-> Limits(<<5, 1>>, <<6, 1>>, <<14, 5>>, <<17, 5>>,
                      <<12, 1>>, <<12, 1>>, <<10, 1>>, <<1000, 1>>),
    limestone |-> Limits(<<7, 2>>, <<6, 1>>, <<2, 1>>, <<33, 10>>,
                         <<39, 5>>, <<17, 2>>, <<2500, 1>>, <<10000, 1>>),
    anhydrite |-> Limits(<<4, 1>>, <<11, 2>>, <<11, 5>>, <<31, 10>>,
                         <<5, 1>>, <<23, 2>>, <<10, 1>>, <<100, 1>>),
    coal |-> Limits(<<11, 5>>, <<27, 10>>, One, <<7, 5>>,
                    <<28, 5>>, <<63, 10>>, <<1, 10>>, <<10000, 1>>),
    salt |-> Limits(<<9, 2>>, <<11, 2>>, <<5, 2>>, <<31, 10>>,
                    <<28, 5>>, <<28, 5>>, One, <<1000000000, 1>>) ]

\* The registered material names: the keys of isotropic_materials.
Registered == DOMAIN isotropic_materials

(***************************************************************************)
(* isotropic_stiffness_tensor(pressure, density, material_limits).         *)
(* ArctanRamp(p) is (2/pi) * arctan(p), so that cp * arctan(p) is          *)
(* (Vp[1] - Vp[0]) * ArctanRamp(p).  It is exact at 0 and at 1 and -1      *)
(* (arctan 1 = pi/4); at 1/10, the pressure get_seismic passes, it is      *)
(* 0.0634510..., held as 1/16.                                             *)
(***************************************************************************)
Tenth == <<1, 10>>

ArctanRamp(p) ==
  CASE p = Zero -> Zero
    [] p = One -> <<1, 2>>
    [] p = <<-1, 1>> -> <<-1, 2>>
    [] p = Tenth -> <<1, 16>>

\* kg/m3 * (km/s)^2 in GPa
Thousandth == <<1, 1000>>

\* cp*np.arctan(pressure) + V[0], for V = <<V[0], V[1]>>
PressureVelocity(v0, v1, pressure) ==
  RAdd(RMul(RSub(v1, v0), ArctanRamp(pressure)), v0)

pvelocity(pressure, material_limits) ==
  PressureVelocity(material_limits[1], material_limits[2], pressure)

svelocity(pressure, material_limits) ==
  PressureVelocity(material_limits[3], material_limits[4], pressure)

\* mu = density*(svelocity**2)
LameMu(pressure, density, material_limits) ==
  RMul(RMul(density, RSq(svelocity(pressure, material_limits))), Thousandth)

\* lam = density*(pvelocity**2) - 2*mu
LameLam(pressure, density, material_limits) ==
  RSub(RMul(RMul(density, RSq(pvelocity(pressure, material_limits))), Thousandth),
       RMul(Two, LameMu(pressure, density, material_limits)))

isotropic_stiffness_tensor(pressure, density, material_limits) ==
  LameTensor(LameLam(pressure, density, material_limits),
             LameMu(pressure, density, material_limits))

(***************************************************************************)
(* ice_stiffness(temperature, pressure): Gammon's fit of the five elastic  *)
(* constants of ice Ih, in units of 1e8 Pa, temperature an integer number  *)
(* of degrees Celsius and pressure a rational number of kbar.  Each term   *)
(* of a fit is evaluated in fixed point with four decimals, and each       *)
(* constant is then held to a whole number of GPa (a multiple of 10 in the *)
(* fit's unit): with finer constants the exact inverses of the             *)
(* homogenisation loop leave TLC's integers.                               *)
(***************************************************************************)
\* (m/d) * x in units of 1e-4, for a coefficient m/d with d >= 10000
Fix4(m, d, x) == (m * x) \div (d \div 10000)

\* c0 - cT*T - cTT*T^2 + cP*p + cPP*p^2 in units of 1e-4; every coefficient
\* is a pair <<mantissa, power of ten>>, cPP carries its sign.
GammonFit(c0, cT, cTT, cP, cPP, temperature, pressure) ==
  Fix4(c0[1], c0[2], 1) - Fix4(cT[1], cT[2], temperature)
    - Fix4(cTT[1], cTT[2], temperature * temperature)
    + (Fix4(cP[1], cP[2], pressure[1]) \div pressure[2])
    + (Fix4(cPP[1], cPP[2], pressure[1] * pressure[1]) \div (pressure[2] * pressure[2]))

\* A fitted constant (in 1e-4 of 1e8 Pa) to the nearest whole GPa, in 1e8 Pa.
WholeGPa(x) == Int2Rat(10 * ((x + 50000) \div 100000))

ice_c11(temperature, pressure) ==
  WholeGPa(GammonFit(<<1368130, 10000>>, <<28940, 100000>>, <<178270, 100000000>>,
                     <<46648, 10000>>, <<-13501, 100000>>, temperature, pressure))

ice_c12(temperature, pressure) ==
  WholeGPa(GammonFit(<<694200, 10000>>, <<14673, 100000>>, <<90362, 100000000>>,
                     <<50743, 10000>>, <<85917, 1000000>>, temperature, pressure))

ice_c13(temperature, pressure) ==
  WholeGPa(GammonFit(<<563410, 10000>>, <<11916, 100000>>, <<73120, 100000000>>,
                     <<64189, 10000>>, <<-52490, 100000>>, temperature, pressure))

ice_c33(temperature, pressure) ==
  WholeGPa(GammonFit(<<1476070, 10000>>, <<31129, 100000>>, <<18948, 10000000>>,
                     <<47546, 10000>>, <<-11307, 100000>>, temperature, pressure))

ice_c44(temperature, pressure) ==
  WholeGPa(GammonFit(<<297260, 10000>>, <<62874, 1000000>>, <<38956, 100000000>>,
                     <<5662, 10000>>, <<36917, 1000000>>, temperature, pressure))

\* HexagonalFill without the statement C[2,1] = C[0,2].
HexagonalFill_NoC21(c11, c12, c13, c33, c44) ==
  [i \in Idx(6) |-> [j \in Idx(6) |->
     IF (i = 0 /\ j = 0) \/ (i = 1 /\ j = 1) THEN c11
     ELSE IF (i = 0 /\ j = 1) \/ (i = 1 /\ j = 0) THEN c12
     ELSE IF (i = 0 /\ j = 2) \/ (i = 2 /\ j = 0) \/ (i = 1 /\ j = 2) THEN c13
     ELSE IF i = 2 /\ j = 2 THEN c33
     ELSE IF (i = 3 /\ j = 3) \/ (i = 4 /\ j = 4) THEN c44
     ELSE IF i = 5 /\ j = 5 THEN RMul(RSub(c11, c12), Half)
     ELSE Zero]]

\* The five assignments and the fill of the symmetry.
HexagonalFill(c11, c12, c13, c33, c44) ==
  [i \in Idx(6) |-> [j \in Idx(6) |->
     IF (i = 0 /\ j = 0) \/ (i = 1 /\ j = 1) THEN c11
     ELSE IF (i = 0 /\ j = 1) \/ (i = 1 /\ j = 0) THEN c12
     ELSE IF (i = 0 /\ j = 2) \/ (i = 2 /\ j = 0)
             \/ (i = 1 /\ j = 2) \/ (i = 2 /\ j = 1) THEN c13
     ELSE IF i = 2 /\ j = 2 THEN c33
     ELSE IF (i = 3 /\ j = 3) \/ (i = 4 /\ j = 4) THEN c44
     ELSE IF i = 5 /\ j = 5 THEN RMul(RSub(c11, c12), Half)
     ELSE Zero]]

\* stiffness = C*1e8 Pa, which is C/10 GPa
ice_stiffness(temperature, pressure) ==
  MatScale(Tenth,
           HexagonalFill(ice_c11(temperature, pressure), ice_c12(temperature, pressure),
                         ice_c13(temperature, pressure), ice_c33(temperature, pressure),
                         ice_c44(temperature, pressure)))

(***************************************************************************)
(* porewater_correction(temperature, density, porosity,                    *)
(* liquid_water_content) and the two fluid densities it uses, in kg/m3.    *)
(* temperature is an integer number of degrees Celsius above -273.         *)
(***************************************************************************)
Hundred == <<100, 1>>

\* 0.02897/(8.2057338e-5 * (273 + temperature)): the constant quotient is
\* 353.05 K kg/m3, held as 353.0, and the density is held to 0.1 kg/m3.
rho_air(temperature) ==
  Rat((2 * 3530 + (273 + temperature)) \div (2 * (273 + temperature)), 10)

\* The temperatures at which the water density is tabulated.
WaterTemperatures == {-50, -20, -10, 0, 4, 20}

\* Kell's equation at the tabulated temperatures, held to 0.1 kg/m3.
rho_water_correction(temperature) ==
  CASE temperature = -50 -> <<897, 1>>
    [] temperature = -20 -> <<9941, 10>>
    [] temperature = -10 -> <<9983, 10>>
    [] temperature = 0 -> <<9998, 10>>
    [] temperature = 4 -> <<9999, 10>>
    [] temperature = 20 -> <<9979, 10>>

\* np.max((rho_water, 950)), then np.min((rho_water, rho_water_correction()))
rho_water_limited(temperature) ==
  RMin(RMax(rho_water_correction(temperature), <<950, 1>>), rho_water_correction(0))

\* PoreMix without the porosity weight on the pore fluid.
PoreMix_Unweighted(density, porosity, rho_wc) ==
  RAdd(RMul(RSub(One, RDiv(porosity, Hundred)), density), rho_wc)

\* density = (1-porosity/100)*density + (porosity/100)*rho_wc
PoreMix(density, porosity, rho_wc) ==
  RAdd(RMul(RSub(One, RDiv(porosity, Hundred)), density),
       RMul(RDiv(porosity, Hundred), rho_wc))

porewater_correction(temperature, density, porosity, liquid_water_content) ==
  LET grams_air == RMul(RSub(One, RDiv(liquid_water_content, Hundred)),
                        rho_air(temperature))
      grams_water == RMul(RDiv(liquid_water_content, Hundred),
                          rho_water_limited(temperature))
      rho_wc == RAdd(grams_air, grams_water)
  IN  [density |-> PoreMix(density, porosity, rho_wc),
       grams_air |-> grams_air, grams_water |-> grams_water]

(***************************************************************************)
(* isotropic_permittivity_tensor(temperature, porosity, water_content,     *)
(* material_name): the pair (permittivity, conductivity), or KeyError when *)
(* the name is not a key of isotropic_materials.                           *)
(***************************************************************************)
KeyError == [error |-> "KeyError"]

\* np.eye(3,3) * x
EyeTimes(x) == MatScale(x, Eye(3))

\* (v1 - v0)/cap * x + v0
LinearTrend(v0, v1, cap, x) == RAdd(RMul(RDiv(RSub(v1, v0), Int2Rat(cap)), x), v0)

\* perm0 = 3.1884 + 9.1e-4 * temperature
ice_perm0(temperature) == RAdd(<<7971, 2500>>, Rat(91 * temperature, 100000))

isotropic_permittivity_tensor(temperature, porosity, water_content, material_name) ==
  IF material_name \notin DOMAIN isotropic_materials THEN KeyError
  ELSE
    LET material_limits == isotropic_materials[material_name]
        perm0 == material_limits[5]
        perm1 == material_limits[6]
        cond0 == material_limits[7]
        cond1 == material_limits[8]
    IN  IF material_name = "ice1h" THEN
          [permittivity |-> EyeTimes(LinearTrend(ice_perm0(temperature), perm1, 85, porosity)),
           conductivity |-> EyeTimes(LinearTrend(cond0, cond1, 85, porosity))]
        ELSE IF material_name = "soil" \/ material_name = "dry sand" THEN
          [permittivity |-> EyeTimes(LinearTrend(perm0, perm1, 55, porosity)),
           conductivity |-> EyeTimes(LinearTrend(cond0, cond1, 55, porosity))]
        ELSE IF material_name = "salt" THEN
          [permittivity |-> EyeTimes(perm0),
           conductivity |-> EyeTimes(LinearTrend(cond0, cond1, 20, water_content))]
        ELSE IF material_name = "water" \/ material_name = "oil" THEN
          [permittivity |-> EyeTimes(material_limits[5]),
           conductivity |-> EyeTimes(material_limits[7])]
        ELSE
          [permittivity |-> EyeTimes(LinearTrend(perm0, perm1, 3, porosity)),
           conductivity |-> EyeTimes(LinearTrend(cond0, cond1, 3, porosity))]

(***************************************************************************)
(* read_ang(filepath).  The table pd.read_table(...).to_numpy() yields is  *)
(* a record [shape |-> <<m, n>>, data |-> its m*n cells in row-major       *)
(* order]; a cell is an angle or NaN.  The result is a table of the same   *)
(* form, or the exception the reshape raises.                              *)
(***************************************************************************)
NaN == "nan"

ZeroDivisionError == [error |-> "ZeroDivisionError"]
ValueError == [error |-> "ValueError"]
IndexError == [error |-> "IndexError"]

\* euler[i, j]
Cell(euler, i, j) == euler.data[i * euler.shape[2] + j + 1]

\* euler[:, 0:3]
FirstThreeColumns(euler) ==
  LET m == euler.shape[1]
      n == IF euler.shape[2] < 3 THEN euler.shape[2] ELSE 3
  IN  [shape |-> <<m, n>>,
       data |-> [x \in 1 .. m * n |-> Cell(euler, (x - 1) \div n, (x - 1) % n)]]

\* euler[~np.isnan(euler)]
DropNaN(cells) == SelectSeq(cells, LAMBDA c : c # NaN)

read_ang(table) ==
  LET euler == IF table.shape[1] > 3 THEN FirstThreeColumns(table) ELSE table
      m == euler.shape[1]
      kept == DropNaN(euler.data)
  IN  IF m = 0 THEN ZeroDivisionError
      ELSE IF m * (Len(kept) \div m) # Len(kept) THEN ValueError
      ELSE [shape |-> <<m, Len(kept) \div m>>, data |-> kept]

(***************************************************************************)
(* np.round.  Rounding is to the nearest, ties to the even digit; the      *)
(* quotient is taken digit by digit so that it stays in TLC's integers.    *)
(***************************************************************************)
RECURSIVE Pow10(_)
Pow10(k) == IF k = 0 THEN 1 ELSE 10 * Pow10(k - 1)

\* k more decimal digits of (q + r/d): <<the digits appended to q, the rest>>
RECURSIVE Digits(_, _, _, _)
Digits(q, r, d, k) ==
  IF k = 0 THEN <<q, r>>
  ELSE Digits(10 * q + ((10 * r) \div d), (10 * r) % d, d, k - 1)

RoundsUp(q, r, d) == 2 * r > d \/ (2 * r = d /\ q % 2 = 1)

\* np.round(x, decimals) of a number
np_round(x, decimals) ==
  LET n == Abs(x[1])
      d == x[2]
      dr == Digits(n \div d, n % d, d, decimals)
      q == IF RoundsUp(dr[1], dr[2], d) THEN dr[1] + 1 ELSE dr[1]
  IN  Rat(IF x[1] < 0 THEN 0 - q ELSE q, Pow10(decimals))

\* np.round(x) of a stiffness x, which the model holds in GPa: the whole
\* number of Pa, as the pair <<g, p>> that stands for g * 1e9 + p Pa.
np_round_Pa(x) ==
  LET n == Abs(x[1])
      d == x[2]
      dr == Digits(0, n % d, d, 9)
      f == IF RoundsUp(dr[1], dr[2], d) THEN dr[1] + 1 ELSE dr[1]
      gp == IF f = Pow10(9) THEN <<(n \div d) + 1, 0>> ELSE <<n \div d, f>>
  IN  IF x[1] < 0 THEN <<0 - gp[1], 0 - gp[2]>> ELSE gp

(***************************************************************************)
(* The dielectric models of ice and snow.  A complex 3-by-3 array is the   *)
(* record [re |-> its real part, im |-> its imaginary part]; imaginary     *)
(* parts of a permittivity are held in units of 1e-6.  frequency is in     *)
(* GHz; the routines are modelled at the centre frequency 1 GHz, where     *)
(* frequency**C_val is 1, and at the temperatures of Fujita's table,       *)
(* where the cubic interpolants return the tabulated values.               *)
(***************************************************************************)
FujitaT == <<190, 200, 220, 240, 248, 253, 258, 263, 265>>

\* A * 10.e-4 in units of 1e-6
FujitaA == <<5, 10, 31, 268, 635, 1059, 1728, 2769, 3326>>

\* B * 10.e-5 in units of 1e-7
FujitaB == <<1537, 1747, 2469, 3495, 4006, 4380, 4696, 5277, 5646>>

\* A_val/frequency + B_val*(frequency**C_val), in units of 1e-6
fujita_complex_permittivity(temperature, frequency) ==
  LET k == CHOOSE x \in DOMAIN FujitaT : FujitaT[x] = temperature + 273
  IN  CASE frequency = One -> RAdd(Int2Rat(FujitaA[k]), Rat(FujitaB[k], 10))

\* method "fujita": perm = 3.1884 + 9.1e-4*temperature, complex(perm,
\* complex_perm) on the diagonal and perm + dP at [2,2]; of dP = 0.0256 +
\* 3.57e-5*6.0e-6*temperature the second term, below 1e-7, is dropped.
ice_permittivity(temperature, density, center_frequency) ==
  LET perm == RAdd(Rat(31884, 10000), Rat(91 * temperature, 100000))
      dP == Rat(256, 10000)
      complex_perm == fujita_complex_permittivity(temperature, center_frequency)
  IN  [re |-> Diag3(perm, perm, RAdd(perm, dP)),
       im |-> Diag3(complex_perm, complex_perm, complex_perm)]

\* method "jones" at the tabulated temperatures, held to 4 decimals
JonesPermittivity(temperature) ==
  CASE temperature = -50 -> Rat(1115745, 10000)
    [] temperature = -20 -> Rat(967111, 10000)
    [] temperature = -10 -> Rat(922662, 10000)
    [] temperature = 0 -> Rat(880542, 10000)
    [] temperature = 4 -> Rat(864316, 10000)
    [] temperature = 20 -> Rat(802758, 10000)

\* 77.66 - 103.3 * (1 - (300/(T))) with T = temperature + 273.15
LiebePermittivity(temperature) ==
  RSub(Rat(7766, 100),
       RMul(Rat(1033, 10), RSub(One, Rat(30000, 100 * temperature + 27315))))

\* np.diag(ice_permittivity(temperature, 917, center_frequency).imag).mean()
MeanIceImaginary(temperature, center_frequency) ==
  RDiv(RAdd(RAdd(ice_permittivity(temperature, <<917, 1>>, center_frequency).im[0][0],
                 ice_permittivity(temperature, <<917, 1>>, center_frequency).im[1][1]),
            ice_permittivity(temperature, <<917, 1>>, center_frequency).im[2][2]),
       <<3, 1>>)

\* 0.8*lwc + 0.72*(lwc**2), in units of 1e-6
WetImaginary(lwc_g) ==
  RMul(Int2Rat(1000000), RAdd(RMul(Rat(8, 10), lwc_g), RMul(Rat(72, 100), RSq(lwc_g))))

\* eps_i * (0.52 * rho_d + 0.62 * rho_d**2); the factor is held to 4 decimals
DryImaginary(rho_d, temperature, center_frequency) ==
  RMul(MeanIceImaginary(temperature, center_frequency),
       np_round(RAdd(RMul(Rat(52, 100), rho_d), RMul(Rat(62, 100), RSq(rho_d))), 4))

\* SnowImaginary with the branch of liquid water taken whatever lwc is.
SnowImaginary_AlwaysWet(grams_water, lwc_g, rho_d, temperature, center_frequency) ==
  WetImaginary(lwc_g)

\* if lwc > 0: ... else: ..., lwc being grams_water / 1000
SnowImaginary(grams_water, lwc_g, rho_d, temperature, center_frequency) ==
  IF RGt(grams_water, Zero)
  THEN WetImaginary(lwc_g)
  ELSE DryImaginary(rho_d, temperature, center_frequency)

\* rho_d and lwc (g/cm3) are held to 3 decimals, the real part of the
\* result to 4 decimals and its imaginary part to 0.1e-6.
snow_permittivity(density, temperature, lwc, porosity, center_frequency, method) ==
  LET corrected == porewater_correction(temperature, density, porosity, lwc)
      lwc_g == np_round(RMul(corrected.grams_water, Thousandth), 3)
      rho_d == np_round(RMul(corrected.density, Thousandth), 3)
      perm ==
        CASE method = "shivola-tiuri" ->
               RAdd(RAdd(RAdd(RMul(Rat(88, 10), lwc_g), RMul(Rat(704, 10), RSq(lwc_g))), One),
                    RAdd(RMul(Rat(117, 100), rho_d), RMul(Rat(7, 10), RSq(rho_d))))
          [] method = "wise" ->
               RAdd(RAdd(One, RMul(Rat(1202, 1000), rho_d)),
                    RAdd(RMul(Rat(983, 1000), RSq(rho_d)), RMul(Rat(213, 10), lwc_g)))
          [] method = "jones" -> JonesPermittivity(temperature)
          [] OTHER -> LiebePermittivity(temperature)
  IN  [permittivity |->
         [re |-> EyeTimes(np_round(perm, 4)),
          im |-> EyeTimes(np_round(
                   SnowImaginary(corrected.grams_water, lwc_g, rho_d,
                                 temperature, center_frequency), 1))],
       rho_d |-> rho_d]

NameError == [error |-> "NameError"]

\* frequency * eps0 for a frequency in GHz, an imaginary permittivity in
\* 1e-6 and a conductivity in 1e-7 S/m: 1e9 * 8.85418782e-12 * 1e-6 / 1e-7,
\* eps0 held as 8.854e-12
Eps0PerGHz == Rat(8854, 100000)

\* sigma = permittivity.imag * frequency * eps0 (held to 0.1e-7 S/m) and
\* np.eye(3,3) * sigma; without a complex permittivity the routine reads
\* temperature, density and porosity, names it does not define.
snow_conductivity(lwc, permittivity, frequency) ==
  IF "im" \in DOMAIN permittivity
  THEN [i \in Idx(3) |-> [j \in Idx(3) |->
          IF i = j
          THEN np_round(RMul(RMul(permittivity.im[i][j], frequency), Eps0PerGHz), 1)
          ELSE Zero]]
  ELSE NameError

(***************************************************************************)
(* highfreq_stability_conditions(T).  The three values are returned; a     *)
(* message is printed for each value that is greater than zero.            *)
(***************************************************************************)
highfreq_cond1(T) ==
  RMul(RSub(RSq(RAdd(T[0][1], T[2][2])), RMul(T[0][0], RSub(T[1][1], T[2][2]))),
       RAdd(RSq(RAdd(T[0][1], T[2][2])), RMul(T[2][2], RSub(T[1][1], T[2][2]))))

highfreq_cond2(T) ==
  RSub(RSq(RAdd(T[0][1], RMul(Two, T[2][2]))), RMul(T[0][0], T[1][1]))

highfreq_cond3(T) ==
  RSub(RSub(RSq(RAdd(T[0][1], T[2][2])), RMul(T[0][0], T[2][2])), RSq(T[2][2]))

\* The three tests chained by elif: only the first failure is reported.
highfreq_stability_conditions_Elif(T) ==
  [cond1 |-> highfreq_cond1(T), cond2 |-> highfreq_cond2(T),
   cond3 |-> highfreq_cond3(T),
   printed |-> IF RGt(highfreq_cond1(T), Zero) THEN {1}
               ELSE IF RGt(highfreq_cond2(T), Zero) THEN {2}
               ELSE IF RGt(highfreq_cond3(T), Zero) THEN {3}
               ELSE {}]

highfreq_stability_conditions(T) ==
  LET cond1 == highfreq_cond1(T)
      cond2 == highfreq_cond2(T)
      cond3 == highfreq_cond3(T)
  IN  [cond1 |-> cond1, cond2 |-> cond2, cond3 |-> cond3,
       printed |-> {k \in 1 .. 3 :
                      RGt(IF k = 1 THEN cond1 ELSE IF k = 2 THEN cond2 ELSE cond3, Zero)}]

(***************************************************************************)
(* np.linalg.eigh and the test np.sum(eigenvalues <= 0) > 0.  eigh reads   *)
(* the lower triangle of its argument; the symmetric matrix it stands for  *)
(* has an eigenvalue <= 0 exactly when a pivot of its elimination without  *)
(* row exchanges is <= 0.                                                  *)
(***************************************************************************)
LowerSymmetric(A) ==
  [i \in Idx(Dim(A)) |-> [j \in Idx(Dim(A)) |-> IF j <= i THEN A[i][j] ELSE A[j][i]]]

RECURSIVE PositivePivots(_, _)
PositivePivots(A, k) ==
  IF k = Dim(A) THEN TRUE
  ELSE IF ~RGt(A[k][k], Zero) THEN FALSE
  ELSE PositivePivots(
         [i \in Idx(Dim(A)) |-> [j \in Idx(Dim(A)) |->
            IF i > k /\ j > k
            THEN RSub(A[i][j], RMul(RDiv(A[i][k], A[k][k]), A[k][j]))
            ELSE A[i][j]]],
         k + 1)

\* np.sum(eigenvalues <= 0) > 0
HasNonPositiveEigenvalue(A) == ~PositivePivots(LowerSymmetric(A), 0)

(***************************************************************************)
(* The body of the loop of get_seismic for one sample: the exception that  *)
(* leaves it, or its locals and the row it assigns.                        *)
(***************************************************************************)
\* euler[k,:] for every k, as the triples rotator_zxz reads
EulerRows(euler) ==
  [k \in 1 .. euler.shape[1] |->
     <<Cell(euler, k - 1, 0), Cell(euler, k - 1, 1), Cell(euler, k - 1, 2)>>]

\* The ensemble of a sample: the exception of read_ang, IndexError where
\* euler[:,0] or eul[1], eul[2] do not exist, or the table read.
ReadEnsemble(angfile) ==
  LET euler == read_ang(angfile)
  IN  IF "error" \in DOMAIN euler THEN euler
      ELSE IF euler.shape[2] < 3 THEN IndexError
      ELSE euler

\* isotropic_materials[name]
LookupLimits_Default(name) ==
  IF name \in DOMAIN isotropic_materials
  THEN isotropic_materials[name] ELSE isotropic_materials["granite"]

LookupLimits(name) ==
  IF name \in DOMAIN isotropic_materials THEN isotropic_materials[name] ELSE KeyError

\* The row with the columns in column-major order.
StiffnessRow_ColumnMajor(C, density) ==
  <<C[0][0], C[0][1], C[1][1], C[0][2], C[1][2], C[2][2],
             C[0][3], C[1][3], C[2][3], C[3][3], C[0][4],
                      C[1][4], C[2][4], C[3][4], C[4][4],
                               C[0][5], C[1][5], C[2][5],
                                        C[3][5], C[4][5],
                                                 C[5][5],
    density>>

\* The row assigned to self.stiffness_coefficients.loc[ind]
StiffnessRow(C, density) ==
  <<C[0][0], C[0][1], C[0][2], C[0][3], C[0][4], C[0][5],
             C[1][1], C[1][2], C[1][3], C[1][4], C[1][5],
                      C[2][2], C[2][3], C[2][4], C[2][5],
                               C[3][3], C[3][4], C[3][5],
                                        C[4][4], C[4][5],
                                                 C[5][5],
    density>>

\* A stiffness tensor with every entry held to a whole number of GPa.
WholeGPaTensor(C) == [i \in Idx(6) |-> [j \in Idx(6) |-> np_round(C[i][j], 0)]]

\* The tensor of a sample is a record: the branch taken, whether an
\* orientation file was read, and the exception or C with the message
\* printed.  stability is the tensor whose stability conditions are
\* evaluated: C itself for ice; for a material of the catalogue, C held to
\* whole GPa, because the conditions are of the fourth degree in the
\* entries and leave TLC's integers on the exact tensor.  The row is built
\* from C in every branch.

\* C = (cvoigt + creuss)/2 and the test of its eigenvalues
HillTensor(estimates) ==
  IF estimates = LinAlgError
  THEN [branch |-> "anisotropic ice1h", read |-> TRUE, error |-> "LinAlgError"]
  ELSE [branch |-> "anisotropic ice1h", read |-> TRUE,
        C |-> estimates.hill, stability |-> estimates.hill,
        printed |-> IF HasNonPositiveEigenvalue(estimates.hill)
                    THEN "Stiffness tensor is not positive definite."
                    ELSE "Stiffness tensor is positive definite"]

\* The branch of anisotropic ice, at the pressure 0.1 * 1e-1 kbar
AnisotropicIceTensor(euler, temperature) ==
  IF "error" \in DOMAIN euler
  THEN [branch |-> "anisotropic ice1h", read |-> TRUE, error |-> euler.error]
  ELSE HillTensor(Homogenize(ice_stiffness(temperature, Rat(1, 100)), EulerRows(euler)))

\* The branch of isotropic ice
IceTensor(C) ==
  [branch |-> "ice1h", read |-> FALSE, C |-> C, stability |-> C,
   printed |-> "Computing the homogeneous stiffness coefficients."]

\* The branch of the catalogue
CatalogueTensor(material_limits, density) ==
  IF material_limits = KeyError
  THEN [branch |-> "isotropic", read |-> FALSE, error |-> "KeyError"]
  ELSE [branch |-> "isotropic", read |-> FALSE,
        C |-> isotropic_stiffness_tensor(Tenth, density, material_limits),
        stability |-> WholeGPaTensor(
                        isotropic_stiffness_tensor(Tenth, density, material_limits)),
        printed |-> ""]

SeismicTensor(sample, density) ==
  IF sample.is_anisotropic /\ sample.material = "ice1h"
  THEN AnisotropicIceTensor(ReadEnsemble(sample.angfile), sample.temp)
  ELSE IF ~sample.is_anisotropic /\ sample.material = "ice1h"
  THEN IceTensor(ice_stiffness(sample.temp, Tenth))
  ELSE CatalogueTensor(LookupLimits(sample.material), density)

\* density, _, _ = porewater_correction(...)
CorrectedDensity(sample) ==
  porewater_correction(sample.temp, sample.rho, sample.porosity, sample.lwc).density

\* C = np.round(C)
RoundedTensor(C) == [i \in Idx(6) |-> [j \in Idx(6) |-> np_round_Pa(C[i][j])]]

\* cond1, cond2, cond3 = highfreq_stability_conditions(C), the rounding and
\* the row; unrounded is C as the branch left it
CheckedLocals(tensor, density, check) ==
  [branch |-> tensor.branch, read |-> tensor.read,
   printed |-> tensor.printed, density |-> density,
   cond1 |-> check.cond1, cond2 |-> check.cond2, cond3 |-> check.cond3,
   conditions |-> check.printed,
   unrounded |-> tensor.C,
   C |-> RoundedTensor(tensor.C),
   row |-> StiffnessRow(RoundedTensor(tensor.C), density)]

\* The stability check, the rounding and the row, after the branches
SeismicLocals(tensor, density) ==
  IF "error" \in DOMAIN tensor THEN tensor
  ELSE CheckedLocals(tensor, density, highfreq_stability_conditions(tensor.stability))

SeismicBody(sample) ==
  SeismicLocals(SeismicTensor(sample, CorrectedDensity(sample)), CorrectedDensity(sample))

(***************************************************************************)
(* The body of the loop of get_perm for one sample.  self.f0, the centre   *)
(* frequency of the model object, is 1 GHz.                                *)
(***************************************************************************)
f0 == One

\* The default density of snow_permittivity, in kg/m3
snow_default_density == <<917, 1>>

\* np.round(A, 3) of a 3-by-3 array
RoundArray3(A) == [i \in Idx(3) |-> [j \in Idx(3) |-> np_round(A[i][j], 3)]]

\* permittivity and conductivity before the statement permittivity.real:
\* the two arrays and the dtype of permittivity (conductivity is an array
\* of floats in every branch), or the exception of the lookup.

\* conductivity = snow_conductivity(permittivity = permittivity,
\* frequency = self.f0), in the branches of ice and of snow
ComplexTensors(branch, permittivity) ==
  [branch |-> branch, dtype |-> "complex", permittivity |-> permittivity,
   conductivity |-> snow_conductivity("None", permittivity, f0)]

\* np.round(...[0], 3) and ...[1], in the branch of the catalogue
CatalogueTensors(tensors) ==
  IF tensors = KeyError
  THEN [branch |-> "isotropic", error |-> "KeyError"]
  ELSE [branch |-> "isotropic", dtype |-> "float",
        permittivity |-> RoundArray3(tensors.permittivity),
        conductivity |-> tensors.conductivity]

DielectricTensors(sample) ==
  IF sample.material = "ice1h"
  THEN ComplexTensors("ice1h", ice_permittivity(sample.temp, sample.rho, f0))
  ELSE IF sample.material = "snow"
  THEN ComplexTensors("snow",
         snow_permittivity(snow_default_density, sample.temp, sample.lwc,
                           sample.porosity, f0, "shivola-tiuri").permittivity)
  ELSE CatalogueTensors(isotropic_permittivity_tensor(sample.temp, sample.porosity,
                                                       sample.lwc, sample.material))

\* A.real of an array of the given dtype
RealPart(A, dtype) == IF dtype = "complex" THEN A.re ELSE A

\* The row assigned to self.permittivity_coefficients.loc[ind] and to
\* self.conductivity_coefficients.loc[ind]
DielectricRow(A) == <<A[0][0], A[0][1], A[0][2], A[1][1], A[1][2], A[2][2]>>

\* The locals of a pass that reaches the two assignments
DielectricLocals(branch, read, printed, permittivity, conductivity) ==
  [branch |-> branch, read |-> read, printed |-> printed,
   permittivity |-> permittivity, conductivity |-> conductivity,
   permittivity_row |-> DielectricRow(permittivity),
   conductivity_row |-> DielectricRow(conductivity)]

\* The Hill averages of the two tensors and the test of the eigenvalues
HillLocals(branch, p_estimates, c_estimates) ==
  IF p_estimates = LinAlgError \/ c_estimates = LinAlgError
  THEN [branch |-> branch, read |-> TRUE, error |-> "LinAlgError"]
  ELSE DielectricLocals(branch, TRUE,
                        IF HasNonPositiveEigenvalue(p_estimates.hill)
                        THEN "Permittivity tensor is not positive definite."
                        ELSE "",
                        p_estimates.hill, c_estimates.hill)

\* if material.is_anisotropic[ind]: ...
AnisotropicLocals(branch, euler, permittivity, conductivity) ==
  IF "error" \in DOMAIN euler
  THEN [branch |-> branch, read |-> TRUE, error |-> euler.error]
  ELSE HillLocals(branch, Homogenize(permittivity, EulerRows(euler)),
                  Homogenize(conductivity, EulerRows(euler)))

PermLocals(sample, tensors) ==
  IF "error" \in DOMAIN tensors
  THEN [branch |-> tensors.branch, read |-> FALSE, error |-> tensors.error]
  ELSE IF ~sample.is_anisotropic
  THEN DielectricLocals(tensors.branch, FALSE, "",
                        RealPart(tensors.permittivity, tensors.dtype),
                        RealPart(tensors.conductivity, "float"))
  ELSE AnisotropicLocals(tensors.branch, ReadEnsemble(sample.angfile),
                         RealPart(tensors.permittivity, tensors.dtype),
                         RealPart(tensors.conductivity, "float"))

PermBody(sample) == PermLocals(sample, DielectricTensors(sample))

(***************************************************************************)
(* State.                                                                  *)
(*   ret       the record of a call of a routine that is exercised on its  *)
(*             own: its name, its arguments and what it returned; NoCall   *)
(*             when no such call is in progress;                           *)
(*   material  the sample table handed to get_seismic and get_perm: a      *)
(*             sequence of samples, sample ind+1 holding material[ind],    *)
(*             temp[ind], rho[ind], porosity[ind], lwc[ind],               *)
(*             is_anisotropic[ind] and the table stored in angfile[ind];   *)
(*   pc        the routine that is running ("idle" when none is);          *)
(*   ind       the loop index of the running routine;                      *)
(*   raised    per routine, the exception that ended it ("none" if none);  *)
(*   done      the routines that have been called;                         *)
(*   stiffness_coefficients, permittivity_coefficients,                    *)
(*   conductivity_coefficients                                             *)
(*             the record tables of the model object, row index -> record; *)
(*   last      the locals of the loop body that ran last.                  *)
(***************************************************************************)
VARIABLES ret, material, pc, ind, raised, done,
          stiffness_coefficients, permittivity_coefficients,
          conductivity_coefficients, last

pipeline == <<material, pc, ind, raised, done, stiffness_coefficients,
              permittivity_coefficients, conductivity_coefficients, last>>

vars == <<ret, pipeline>>

NoCall == [fn |-> "none"]

NoLocals == [routine |-> "none"]

\* No routine of the pipeline runs and there is no sample table.
NoPipeline ==
  /\ material = <<>> /\ pc = "idle" /\ ind = 0 /\ done = {}
  /\ raised = [get_seismic |-> "none", get_perm |-> "none"]
  /\ stiffness_coefficients = <<>>
  /\ permittivity_coefficients = <<>>
  /\ conductivity_coefficients = <<>>
  /\ last = NoLocals

InitCalls == ret = NoCall /\ NoPipeline

\* The call under examination returns to the test bench.
Return == ret # NoCall /\ ret' = NoCall /\ UNCHANGED pipeline

(***************************************************************************)
(* highfreq_stability_conditions on its own.                               *)
(***************************************************************************)
MaxLame == 10

\* A tensor that is zero but for the four entries the check reads.
StabilityProbe(c00, c01, c11, c22) ==
  [i \in Idx(6) |-> [j \in Idx(6) |->
     IF i = 0 /\ j = 0 THEN Int2Rat(c00)
     ELSE IF (i = 0 /\ j = 1) \/ (i = 1 /\ j = 0) THEN Int2Rat(c01)
     ELSE IF i = 1 /\ j = 1 THEN Int2Rat(c11)
     ELSE IF i = 2 /\ j = 2 THEN Int2Rat(c22)
     ELSE Zero]]

StabilityInputs ==
  {LameTensor(Int2Rat(l), Int2Rat(m)) : l \in 0 .. MaxLame, m \in 0 .. MaxLame}
  \cup {StabilityProbe(a, b, c, d) : a \in 1 .. 3, b \in 0 .. 1, c \in 1 .. 3, d \in 0 .. 2}

CallHighfreq ==
  /\ ret = NoCall
  /\ \E T \in StabilityInputs :
       ret' = [fn |-> "highfreq_stability_conditions", T |-> T,
               out |-> highfreq_stability_conditions(T)]
  /\ UNCHANGED pipeline

SpecStability == InitCalls /\ [][CallHighfreq \/ Return]_vars

\* C1: applied to the isotropic tensor of lambda = mu = 1 the check reports
\* no violation: none of cond1, cond2, cond3 is greater than zero.
C1_IsotropicTensorPasses ==
  (ret.fn = "highfreq_stability_conditions" /\ ret.T = LameTensor(One, One))
    => ~RGt(ret.out.cond1, Zero) /\ ~RGt(ret.out.cond2, Zero)
       /\ ~RGt(ret.out.cond3, Zero) /\ ret.out.printed = {}


(***************************************************************************)
(* isotropic_stiffness_tensor on its own: pressures at which the ramp is   *)
(* exact, small densities and velocity limits, and the catalogue's own     *)
(* limits.                                                                 *)
(***************************************************************************)
MaxDensity == 3
MaxVelocity == 3

VelocityLimits ==
  {Limits(Int2Rat(vp0), Int2Rat(vp1), Int2Rat(vs0), Int2Rat(vs1), One, One, One, One) :
     vp0 \in 2 .. MaxVelocity, vp1 \in 2 .. (MaxVelocity + 1),
     vs0 \in 0 .. 1, vs1 \in 1 .. 2}
  \cup {isotropic_materials[n] : n \in Registered}

CallIsoStiffness ==
  /\ ret = NoCall
  /\ \E pressure \in {Zero, One, <<-1, 1>>}, d \in 1 .. MaxDensity, lim \in VelocityLimits :
       ret' = [fn |-> "isotropic_stiffness_tensor", pressure |-> pressure,
               density |-> Int2Rat(d), material_limits |-> lim,
               Vp |-> pvelocity(pressure, lim), Vs |-> svelocity(pressure, lim),
               out |-> isotropic_stiffness_tensor(pressure, Int2Rat(d), lim)]
  /\ UNCHANGED pipeline

SpecIsoStiffness == InitCalls /\ [][CallIsoStiffness \/ Return]_vars

\* The Lame parameters the claim names, from the velocities the call used.
C5_Mu == RMul(RMul(ret.density, RMul(ret.Vs, ret.Vs)), Thousandth)
C5_Lam == RSub(RMul(RMul(ret.density, RMul(ret.Vp, ret.Vp)), Thousandth), RAdd(C5_Mu, C5_Mu))

\* C5: at pressure 0 the velocities are the catalogue minima, and for every
\* pressure, density and limits the result has lam + 2 mu on the first three
\* diagonal entries, lam off the diagonal of the upper-left block, mu on the
\* last three diagonal entries and 0 elsewhere.
C5_IsotropicTensorShape ==
  ret.fn = "isotropic_stiffness_tensor" =>
    /\ ret.pressure = Zero =>
         ret.Vp = ret.material_limits[1] /\ ret.Vs = ret.material_limits[3]
    /\ \A i \in Idx(6), j \in Idx(6) :
         ret.out[i][j] =
           IF i = j /\ i <= 2 THEN RAdd(C5_Lam, RMul(Two, C5_Mu))
           ELSE IF i <= 2 /\ j <= 2 THEN C5_Lam
           ELSE IF i = j THEN C5_Mu
           ELSE Zero

\* A call at pressure 0 with distinct minimum and maximum velocities and a
\* tensor with lam # 0 and mu # 0.
C5_Witness ==
  /\ ret.fn = "isotropic_stiffness_tensor" /\ ret.pressure = Zero
  /\ ret.material_limits[1] # ret.material_limits[2]
  /\ ret.material_limits[3] # ret.material_limits[4]
  /\ ret.out[0][1] # Zero /\ ret.out[3][3] # Zero /\ ret.out[0][0] # ret.out[0][1]

(***************************************************************************)
(* ice_stiffness on its own.                                               *)
(***************************************************************************)
MaxCold == 60

IcePressures == {Zero, <<1, 100>>, Tenth, One, Two}

CallIceStiffness ==
  /\ ret = NoCall
  /\ \E temperature \in (0 - MaxCold) .. 0, pressure \in IcePressures :
       ret' = [fn |-> "ice_stiffness", temperature |-> temperature,
               pressure |-> pressure, out |-> ice_stiffness(temperature, pressure)]
  /\ UNCHANGED pipeline

SpecIceStiffness == InitCalls /\ [][CallIceStiffness \/ Return]_vars

\* The positions the five constants determine.
C7_Determined(i, j) == (i <= 2 /\ j <= 2) \/ (i = j)

\* C7: the tensor ice_stiffness returns is symmetric, has c22 = c11,
\* c23 = c13, c21 = c12, c55 = c44 and c66 = (c11 - c12)/2, and is zero at
\* every position the five constants do not determine.
C7_HexagonalSymmetry ==
  ret.fn = "ice_stiffness" =>
    LET c == ret.out
    IN  /\ \A i \in Idx(6), j \in Idx(6) : c[i][j] = c[j][i]
        /\ c[1][1] = c[0][0] /\ c[1][2] = c[0][2] /\ c[1][0] = c[0][1]
        /\ c[4][4] = c[3][3]
        /\ RAdd(c[5][5], c[5][5]) = RSub(c[0][0], c[0][1])
        /\ \A i \in Idx(6), j \in Idx(6) : ~C7_Determined(i, j) => c[i][j] = Zero

\* A call below freezing and under pressure whose five constants are
\* pairwise different and not zero.
C7_Witness ==
  /\ ret.fn = "ice_stiffness" /\ ret.temperature < 0 /\ RGt(ret.pressure, Zero)
  /\ Cardinality({ret.out[0][0], ret.out[0][1], ret.out[0][2],
                  ret.out[2][2], ret.out[3][3], Zero}) = 6

(***************************************************************************)
(* porewater_correction on its own.                                        *)
(***************************************************************************)
PoreDensities == {Zero, One, <<917, 1>>, <<2700, 1>>}
PorePorosities == {Zero, Half, <<3, 1>>, <<50, 1>>, Hundred}
PoreWaterContents == {Zero, One, <<50, 1>>, Hundred}

CallPorewater ==
  /\ ret = NoCall
  /\ \E temperature \in WaterTemperatures, density \in PoreDensities,
        porosity \in PorePorosities, lwc \in PoreWaterContents :
       ret' = [fn |-> "porewater_correction", temperature |-> temperature,
               density |-> density, porosity |-> porosity,
               liquid_water_content |-> lwc,
               out |-> porewater_correction(temperature, density, porosity, lwc)]
  /\ UNCHANGED pipeline

SpecPorewater == InitCalls /\ [][CallPorewater \/ Return]_vars

PermNames == Registered \cup {"dry sand", "unobtainium"}

CallIsoPermittivity ==
  /\ ret = NoCall
  /\ \E temperature \in {-20, -10, 0}, porosity \in {Zero, One, <<3, 1>>, <<55, 1>>},
        water_content \in {Zero, <<20, 1>>}, material_name \in PermNames :
       ret' = [fn |-> "isotropic_permittivity_tensor", temperature |-> temperature,
               porosity |-> porosity, water_content |-> water_content,
               material_name |-> material_name,
               out |-> isotropic_permittivity_tensor(temperature, porosity,
                                                     water_content, material_name)]
  /\ UNCHANGED pipeline

SpecIsoPermittivity == InitCalls /\ [][CallIsoPermittivity \/ Return]_vars

\* The slope cap the claim assigns to a registered name (0: fixed values).
C8_Cap(name) ==
  CASE name = "ice1h" -> 85
    [] name \in {"soil", "dry_sand"} -> 55
    [] name = "salt" -> 20
    [] name \in {"water", "oil"} -> 0
    [] OTHER -> 3

\* The scalar permittivity and conductivity the claim assigns to the call.
C8_Permittivity ==
  LET lim == isotropic_materials[ret.material_name]
      min == IF ret.material_name = "ice1h"
             THEN RAdd(Rat(31884, 10000), RMul(<<91, 100000>>, Int2Rat(ret.temperature)))
             ELSE lim[5]
  IN  IF ret.material_name \in {"salt", "water", "oil"} THEN lim[5]
      ELSE RAdd(min, RMul(ret.porosity,
                          RDiv(RSub(lim[6], min), Int2Rat(C8_Cap(ret.material_name)))))

C8_Conductivity ==
  LET lim == isotropic_materials[ret.material_name]
  IN  IF ret.material_name \in {"water", "oil"} THEN lim[7]
      ELSE RAdd(lim[7], RMul(IF ret.material_name = "salt"
                             THEN ret.water_content ELSE ret.porosity,
                             RDiv(RSub(lim[8], lim[7]), Int2Rat(C8_Cap(ret.material_name)))))

\* C8: for every registered name the tensors are those of the class branch
\* the claim assigns: ice1h the slope over 85 from the temperature-adjusted
\* minimum, soil and dry_sand the slope over 55, salt a fixed permittivity
\* and a conductivity slope over 20 in the water content, water and oil
\* fixed values, every other name the slope over 3.
C8_ClassBranches ==
  (ret.fn = "isotropic_permittivity_tensor" /\ ret.material_name \in Registered)
    => \A i \in Idx(3), j \in Idx(3) :
         /\ ret.out.permittivity[i][j] = (IF i = j THEN C8_Permittivity ELSE Zero)
         /\ ret.out.conductivity[i][j] = (IF i = j THEN C8_Conductivity ELSE Zero)

(***************************************************************************)
(* read_ang on its own: tables of up to MaxRows rows and MaxCols columns   *)
(* whose cell (i, j) holds an angle fixed by its position, complete, or    *)
(* with one column of NaN, or with a single NaN.                           *)
(***************************************************************************)
MaxRows == 4
MaxCols == 5

AngleNames == <<"0", "pi/2", "pi", "3pi/2", "atan(4/3)">>

\* The m-by-n table whose cells in the set nans are NaN.
AngTable(m, n, nans) ==
  [shape |-> <<m, n>>,
   data |-> [x \in 1 .. m * n |->
               IF x \in nans THEN NaN ELSE AngleNames[((x - 1) % 5) + 1]]]

AngTables ==
  UNION {{AngTable(m, n, {})}
         \cup {AngTable(m, n, {x}) : x \in 1 .. m * n}
         \cup {AngTable(m, n, {x \in 1 .. m * n : (x - 1) % n = j}) : j \in 0 .. n - 1}
         : m \in 0 .. MaxRows, n \in 1 .. MaxCols}

CallReadAng ==
  /\ ret = NoCall
  /\ \E table \in AngTables :
       ret' = [fn |-> "read_ang", table |-> table, out |-> read_ang(table)]
  /\ UNCHANGED pipeline

SpecReadAng == InitCalls /\ [][CallReadAng \/ Return]_vars

\* C10: read_ang either fails, or returns an array of exactly 3 columns
\* that holds the first three columns of each row of the table; it never
\* returns an array whose column count differs from 3.
C10_ExactlyThreeColumns ==
  (ret.fn = "read_ang" /\ "error" \notin DOMAIN ret.out)
    => /\ ret.out.shape[2] = 3
       /\ \A i \in 0 .. ret.table.shape[1] - 1, j \in 0 .. 2 :
            Cell(ret.out, i, j) = Cell(ret.table, i, j)

(***************************************************************************)
(* The Voigt-Reuss-Hill loop on its own: the 6-by-6 loop of get_seismic on *)
(* an isotropic and a hexagonal stiffness tensor, the 3-by-3 loop of       *)
(* get_perm on diagonal tensors, over ensembles of 1..MaxEnsemble          *)
(* orientations.  At most one orientation of an ensemble has an angle that *)
(* is not a multiple of pi/2, and the hexagonal tensor is rotated by       *)
(* multiples of pi/2 only: beyond that the exact inverses leave TLC's      *)
(* integers.                                                               *)
(***************************************************************************)
MaxEnsemble == 2

EulerTriples ==
  {<<a, b, "0">> : a \in {"0", "pi/2", "atan(4/3)"}, b \in {"0", "pi/2"}}

Oblique(eul) == \E k \in 1 .. 3 : eul[k] \notin RightAngles

Ensembles ==
  {e \in UNION {[1 .. p -> EulerTriples] : p \in 1 .. MaxEnsemble} :
     Cardinality({k \in DOMAIN e : Oblique(e[k])}) <= 1}

IsotropicCrystals == {LameTensor(One, One)}

HexagonalCrystals == {ice_stiffness(-10, <<1, 100>>)}

DielectricCrystals ==
  {Diag3(<<3, 1>>, <<3, 1>>, <<5, 1>>), Diag3(Two, Two, Two), Diag3(One, Zero, One)}

HomogenizeInputs ==
  {<<C, e>> \in (IsotropicCrystals \cup HexagonalCrystals \cup DielectricCrystals)
                  \X Ensembles :
     C \in HexagonalCrystals => \A k \in DOMAIN e : ~Oblique(e[k])}

CallHomogenize ==
  /\ ret = NoCall
  /\ \E arg \in HomogenizeInputs :
       LET C == arg[1]
           euler == arg[2]
       IN  ret' = [fn |-> "homogenize",
                   routine |-> IF Dim(C) = 6 THEN "get_seismic" ELSE "get_perm",
                   C |-> C, euler |-> euler,
                   R |-> [k \in DOMAIN euler |-> rotator_zxz(euler[k])],
                   M |-> [k \in DOMAIN euler |-> bond(rotator_zxz(euler[k]))],
                   out |-> Homogenize(C, euler)]
  /\ UNCHANGED pipeline

SpecHomogenize == InitCalls /\ [][CallHomogenize \/ Return]_vars

\* C2: over the single orientation (0,0,0) rotator_zxz returns the 3-by-3
\* identity, bond of it is the 6-by-6 identity, and the Voigt, the Reuss
\* and the Hill result all equal the single-crystal tensor (C in the loop
\* of get_seismic, P in the loop of get_perm), for every single-crystal
\* tensor np.linalg.inv accepts.
C2_IdentityOrientation ==
  (ret.fn = "homogenize" /\ ret.euler = <<(<<"0", "0", "0">>)>>)
    => /\ ret.R[1] = Eye(3)
       /\ ret.M[1] = Eye(6)
       /\ Inv(ret.C) # LinAlgError
            => /\ ret.out # LinAlgError
               /\ ret.out.voigt = ret.C
               /\ ret.out.reuss = ret.C
               /\ ret.out.hill = ret.C

\* The loop of get_seismic has run over the single orientation (0,0,0) on
\* a hexagonal tensor (c11 # c33, c12 # c13).
C2_Witness ==
  /\ ret.fn = "homogenize" /\ ret.routine = "get_seismic"
  /\ ret.euler = <<(<<"0", "0", "0">>)>>
  /\ ret.C[0][0] # ret.C[2][2] /\ ret.C[0][1] # ret.C[0][2]
  /\ ret.out # LinAlgError /\ ret.out.hill = ret.C

\* c11 = c22 = c33, c12 = c13 = c23, c44 = c55 = c66 = (c11 - c12)/2
C3_Isotropic(C) ==
  /\ Dim(C) = 6
  /\ C[1][1] = C[0][0] /\ C[2][2] = C[0][0]
  /\ C[0][2] = C[0][1] /\ C[1][2] = C[0][1]
  /\ C[4][4] = C[3][3] /\ C[5][5] = C[3][3]
  /\ RAdd(C[3][3], C[3][3]) = RSub(C[0][0], C[0][1])

\* C3: for an isotropic single-crystal stiffness tensor C and any ensemble
\* of two orientations the Voigt and the Reuss average of the loop both
\* equal C, so Reuss <= Hill <= Voigt holds component-wise.
C3_IsotropicVoigtEqualsReuss ==
  (ret.fn = "homogenize" /\ C3_Isotropic(ret.C) /\ Len(ret.euler) = 2)
    => /\ ret.out # LinAlgError
       /\ ret.out.voigt = ret.C
       /\ ret.out.reuss = ret.C
       /\ \A i \in Idx(6), j \in Idx(6) :
            /\ RLe(ret.out.reuss[i][j], ret.out.hill[i][j])
            /\ RLe(ret.out.hill[i][j], ret.out.voigt[i][j])

(***************************************************************************)
(* get_seismic and get_perm on a sample table.  The interpreter runs one   *)
(* routine at a time; each routine is called at most once, in either       *)
(* order, and one step is one pass of its loop.                            *)
(***************************************************************************)
MaxSamples == 2

Sample(name, temp, rho, porosity, lwc, is_anisotropic, angfile) ==
  [material |-> name, temp |-> temp, rho |-> Int2Rat(rho),
   porosity |-> Int2Rat(porosity), lwc |-> Int2Rat(lwc),
   is_anisotropic |-> is_anisotropic, angfile |-> angfile]

\* The orientation files of the samples: one crystal, two crystals, a file
\* of two columns and a file with a missing value.
OneCrystal == [shape |-> <<1, 3>>, data |-> <<"pi/2", "pi/2", "0">>]
TwoCrystals == [shape |-> <<2, 3>>, data |-> <<"0", "pi/2", "0", "0", "pi/2", "0">>]
TwoColumns == [shape |-> <<2, 2>>, data |-> <<"0", "0", "pi/2", "0">>]
MissingValue == [shape |-> <<2, 3>>, data |-> <<"0", "0", "0", "pi/2", NaN, "0">>]

Samples ==
  { Sample("granite", 20, 2700, 0, 0, FALSE, OneCrystal),
    Sample("salt", 20, 2100, 0, 5, TRUE, TwoCrystals),
    Sample("water", 4, 1000, 0, 100, FALSE, OneCrystal),
    Sample("snow", -10, 400, 50, 10, FALSE, OneCrystal),
    Sample("ice1h", -10, 917, 2, 50, FALSE, OneCrystal),
    Sample("ice1h", -20, 917, 0, 0, TRUE, OneCrystal),
    Sample("ice1h", -10, 917, 2, 0, TRUE, TwoCrystals),
    Sample("ice1h", -10, 917, 0, 0, TRUE, TwoColumns),
    Sample("ice1h", -10, 917, 0, 0, TRUE, MissingValue),
    Sample("unobtainium", 20, 2000, 0, 0, TRUE, TwoCrystals) }

SampleTables == UNION {[1 .. m -> Samples] : m \in 0 .. MaxSamples}

\* The model object before either routine is called: its three record
\* tables have no row.
Init ==
  /\ ret = NoCall
  /\ material \in SampleTables
  /\ pc = "idle" /\ ind = 0 /\ done = {}
  /\ raised = [get_seismic |-> "none", get_perm |-> "none"]
  /\ stiffness_coefficients = <<>>
  /\ permittivity_coefficients = <<>>
  /\ conductivity_coefficients = <<>>
  /\ last = NoLocals

\* The table replaced by one that holds the new row only.
Loc_Replace(table, index, row) == (index :> row)

\* table.loc[index] = row
Loc(table, index, row) == (index :> row) @@ table

\* The exception leaves the routine.
Raise(routine, locals) ==
  /\ raised' = [raised EXCEPT ![routine] = locals.error]
  /\ pc' = "idle"
  /\ UNCHANGED <<ind, stiffness_coefficients, permittivity_coefficients,
                 conductivity_coefficients>>

\* get_seismic is called: m = len(material.temp) and the entry of its loop
CallGetSeismic ==
  /\ pc = "idle" /\ "get_seismic" \notin done
  /\ pc' = "get_seismic" /\ ind' = 0 /\ done' = done \cup {"get_seismic"}
  /\ UNCHANGED <<ret, material, raised, stiffness_coefficients,
                 permittivity_coefficients, conductivity_coefficients, last>>

\* One pass of the loop of get_seismic.
SeismicStep ==
  /\ pc = "get_seismic" /\ ind < Len(material)
  /\ last' = [routine |-> "get_seismic", ind |-> ind] @@ SeismicBody(material[ind + 1])
  /\ IF "error" \in DOMAIN last'
     THEN Raise("get_seismic", last')
     ELSE /\ stiffness_coefficients' = Loc(stiffness_coefficients, ind, last'.row)
          /\ ind' = ind + 1
          /\ UNCHANGED <<pc, raised, permittivity_coefficients,
                         conductivity_coefficients>>
  /\ UNCHANGED <<ret, material, done>>

\* range(0, m) is exhausted: get_seismic returns
SeismicReturn ==
  /\ pc = "get_seismic" /\ ind = Len(material)
  /\ pc' = "idle"
  /\ UNCHANGED <<ret, material, ind, raised, done, stiffness_coefficients,
                 permittivity_coefficients, conductivity_coefficients, last>>

\* get_perm is called: m = len(material.temp) and the entry of its loop
CallGetPerm ==
  /\ pc = "idle" /\ "get_perm" \notin done
  /\ pc' = "get_perm" /\ ind' = 0 /\ done' = done \cup {"get_perm"}
  /\ UNCHANGED <<ret, material, raised, stiffness_coefficients,
                 permittivity_coefficients, conductivity_coefficients, last>>

\* One pass of the loop of get_perm.
PermStep ==
  /\ pc = "get_perm" /\ ind < Len(material)
  /\ last' = [routine |-> "get_perm", ind |-> ind] @@ PermBody(material[ind + 1])
  /\ IF "error" \in DOMAIN last'
     THEN Raise("get_perm", last')
     ELSE /\ permittivity_coefficients' =
               Loc(permittivity_coefficients, ind, last'.permittivity_row)
          /\ conductivity_coefficients' =
               Loc(conductivity_coefficients, ind, last'.conductivity_row)
          /\ ind' = ind + 1
          /\ UNCHANGED <<pc, raised, stiffness_coefficients>>
  /\ UNCHANGED <<ret, material, done>>

\* range(0, m) is exhausted: get_perm returns
PermReturn ==
  /\ pc = "get_perm" /\ ind = Len(material)
  /\ pc' = "idle"
  /\ UNCHANGED <<ret, material, ind, raised, done, stiffness_coefficients,
                 permittivity_coefficients, conductivity_coefficients, last>>

Next ==
  \/ CallGetSeismic \/ SeismicStep \/ SeismicReturn
  \/ CallGetPerm \/ PermStep \/ PermReturn

Spec == Init /\ [][Next]_vars

(***************************************************************************)
(* The layout of the records.                                              *)
(***************************************************************************)
\* The place (from 1) of entry [i,j], i <= j, among the entries of the upper
\* triangle of an n-by-n array taken row by row.
UpperPlace(n, i, j) == i * n - (i * (i - 1)) \div 2 + (j - i) + 1

C4_StiffnessRecord ==
  /\ \A k \in DOMAIN stiffness_coefficients :
       /\ Len(stiffness_coefficients[k]) = 22
       /\ stiffness_coefficients[k][22] =
            porewater_correction(material[k + 1].temp, material[k + 1].rho,
                                 material[k + 1].porosity, material[k + 1].lwc).density
  /\ (last.routine = "get_seismic" /\ "error" \notin DOMAIN last)
     => \A i \in Idx(6) : \A j \in i .. 5 :
          stiffness_coefficients[last.ind][UpperPlace(6, i, j)] = last.C[i][j]

C4_DielectricRecords ==
  /\ \A k \in DOMAIN permittivity_coefficients : Len(permittivity_coefficients[k]) = 6
  /\ \A k \in DOMAIN conductivity_coefficients : Len(conductivity_coefficients[k]) = 6
  /\ (last.routine = "get_perm" /\ "error" \notin DOMAIN last)
     => \A i \in Idx(3) : \A j \in i .. 2 :
          /\ permittivity_coefficients[last.ind][UpperPlace(3, i, j)] = last.permittivity[i][j]
          /\ conductivity_coefficients[last.ind][UpperPlace(3, i, j)] = last.conductivity[i][j]

\* C4: every stiffness record get_seismic has written has 22 entries, the
\* entry at the row-major place of [i,j] in the upper triangle being C[i,j]
\* and the last entry the porewater-corrected density of the sample; every
\* permittivity and conductivity record get_perm has written has 6 entries,
\* in the order [0,0], [0,1], [0,2], [1,1], [1,2], [2,2].
C4_RecordLayout == C4_StiffnessRecord /\ C4_DielectricRecords

\* Both routines have written the records of a porous sample whose tensor
\* tells the places apart: C[0,2] differs from C[1,1] and the corrected
\* density from the density of the sample.
C4_Witness ==
  \E k \in DOMAIN stiffness_coefficients \cap DOMAIN permittivity_coefficients :
    /\ material[k + 1].porosity # Zero
    /\ stiffness_coefficients[k][22] # material[k + 1].rho
    /\ stiffness_coefficients[k][3] # stiffness_coefficients[k][7]
    /\ permittivity_coefficients[k][1] # permittivity_coefficients[k][2]
    /\ conductivity_coefficients[k][4] # conductivity_coefficients[k][5]

(***************************************************************************)
(* Unregistered material names.                                            *)
(***************************************************************************)
Routines == {"get_seismic", "get_perm"}

Tables == <<stiffness_coefficients, permittivity_coefficients, conductivity_coefficients>>

C9_NoRecord ==
  \A k \in 0 .. Len(material) - 1 :
    material[k + 1].material \notin Registered
    => /\ k \notin DOMAIN stiffness_coefficients
       /\ k \notin DOMAIN permittivity_coefficients
       /\ k \notin DOMAIN conductivity_coefficients

C9_Aborts ==
  \A routine \in Routines :
    (pc = routine /\ ind < Len(material) /\ material[ind + 1].material \notin Registered)
    => /\ pc' = "idle"
       /\ raised'[routine] = "KeyError"
       /\ UNCHANGED Tables

\* C9: a sample whose material name is not a key of the catalogue never has
\* a stiffness, permittivity or conductivity record, and the pass of
\* get_seismic or get_perm over it ends the routine with KeyError and leaves
\* the three record tables as they were.
C9_UnregisteredNameAborts == [](C9_NoRecord) /\ [][C9_Aborts]_vars

\* Both routines stopped with KeyError at the second sample, after they
\* wrote the records of the first.
C9_Witness ==
  /\ Len(material) = 2 /\ material[2].material \notin Registered
  /\ pc = "idle"
  /\ raised = [get_seismic |-> "KeyError", get_perm |-> "KeyError"]
  /\ DOMAIN stiffness_coefficients = {0}
  /\ DOMAIN permittivity_coefficients = {0}
  /\ DOMAIN conductivity_coefficients = {0}

(***************************************************************************)
(* snow_permittivity on its own.                                           *)
(***************************************************************************)
\* The method names snow_permittivity tests for, and the name of its last
\* branch.  With method "wise" the call draws the inputs whose value fits
\* the integers of TLC: the square of a density of three decimals takes
\* nine.
SnowMethods == {"shivola-tiuri", "wise", "jones", "liebe"}

CallSnowPermittivity ==
  /\ ret = NoCall
  /\ \E density \in {<<300, 1>>, <<400, 1>>, <<917, 1>>},
        temperature \in {-20, -10},
        lwc \in {Zero, <<10, 1>>, <<50, 1>>}, porosity \in {Zero, <<50, 1>>},
        method \in SnowMethods \cup {"bogus"} :
       /\ method = "wise" =>
            /\ density # <<917, 1>>
            /\ porosity = Zero \/ lwc = <<10, 1>>
       /\ ret' = [fn |-> "snow_permittivity", density |-> density,
                  temperature |-> temperature, lwc |-> lwc, porosity |-> porosity,
                  method |-> method,
                  out |-> snow_permittivity(density, temperature, lwc, porosity, f0, method)]
  /\ UNCHANGED pipeline

SpecSnowPermittivity == InitCalls /\ [][CallSnowPermittivity \/ Return]_vars

\* C11: a call of snow_permittivity with a method name outside the supported
\* set ends in an error and returns no permittivity.
C11_UnknownMethodRejected ==
  (ret.fn = "snow_permittivity" /\ ret.method \notin SnowMethods)
  => "error" \in DOMAIN ret.out

\* The value the call holds for rho_d: the porewater-corrected density in
\* g/cm3, and the liquid water in g/cm3.
C12_DryDensity ==
  np_round(RMul(porewater_correction(ret.temperature, ret.density, ret.porosity,
                                     ret.lwc).density, Thousandth), 3)

C12_Water ==
  np_round(RMul(porewater_correction(ret.temperature, ret.density, ret.porosity,
                                     ret.lwc).grams_water, Thousandth), 3)

C12_Isotropic(A, x) ==
  \A i \in Idx(3), j \in Idx(3) : A[i][j] = IF i = j THEN x ELSE Zero

\* C12: snow_permittivity takes the liquid-water imaginary part exactly when
\* lwc > 0 and otherwise the mean imaginary ice permittivity scaled by
\* 0.52*rho_d + 0.62*rho_d^2; with lwc = 0 and method shivola-tiuri the real
\* part is 1 + 1.17*rho_d + 0.7*rho_d^2; real and imaginary parts are
\* isotropic diagonal 3x3 tensors, returned together with rho_d.
C12_SnowBranches ==
  ret.fn = "snow_permittivity" =>
    /\ ret.out.rho_d = C12_DryDensity
    /\ C12_Isotropic(ret.out.permittivity.re, ret.out.permittivity.re[0][0])
    /\ C12_Isotropic(ret.out.permittivity.im,
         IF RGt(ret.lwc, Zero)
         THEN np_round(WetImaginary(C12_Water), 1)
         ELSE np_round(DryImaginary(C12_DryDensity, ret.temperature, f0), 1))
    /\ (ret.lwc = Zero /\ ret.method = "shivola-tiuri") =>
         ret.out.permittivity.re[0][0] =
           np_round(RAdd(One, RAdd(RMul(Rat(117, 100), C12_DryDensity),
                                   RMul(Rat(7, 10), RSq(C12_DryDensity)))), 4)

\* A dry call with the default method whose imaginary part is not zero.
C12_Witness ==
  /\ ret.fn = "snow_permittivity"
  /\ ret.lwc = Zero
  /\ ret.method = "shivola-tiuri"
  /\ ret.porosity # Zero
  /\ RGt(ret.out.permittivity.im[0][0], Zero)

\* The pass of get_perm that ran last handled a sample of ice or of snow
\* whose anisotropic flag is not set: its two tensors are the ones
\* assigned in the branch.
C13_Case ==
  /\ last.routine = "get_perm"
  /\ "error" \notin DOMAIN last
  /\ last.branch \in {"ice1h", "snow"}
  /\ ~last.read

\* eps'' * f0 * eps0 of the sample of that pass, on the diagonal place i
C13_Product(i) ==
  RMul(RMul(DielectricTensors(material[last.ind + 1]).permittivity.im[i][i], f0),
       Eps0PerGHz)

\* C13: for a sample of ice or of snow, get_perm stores the real part of the
\* complex permittivity, and the conductivity it stores is the imaginary
\* part times omega * eps0 with omega = 2*pi*f0: more than 6 times
\* eps'' * f0 * eps0 (to the 0.1e-7 S/m the conductivity is held to).
C13_ConductivityFromImaginary ==
  C13_Case =>
    /\ last.permittivity = DielectricTensors(material[last.ind + 1]).permittivity.re
    /\ \A i \in Idx(3) :
         RGt(C13_Product(i), Zero) =>
           RGt(RAdd(last.conductivity[i][i], Tenth), RMul(<<6, 1>>, C13_Product(i)))

(***************************************************************************)
(* snow_conductivity on its own.                                           *)
(***************************************************************************)
\* permittivity = None, the default of the parameter.  The call draws None,
\* arrays of floats and arrays of complex numbers (imaginary parts in 1e-6),
\* and frequencies in GHz.
None == [none |-> TRUE]

CallSnowConductivity ==
  /\ ret = NoCall
  /\ \E lwc \in {Zero, <<10, 1>>, <<50, 1>>},
        permittivity \in
          {None}
          \cup {[re |-> EyeTimes(x)] : x \in {One, <<3, 1>>}}
          \cup {[re |-> EyeTimes(x), im |-> EyeTimes(y)] :
                  x \in {One, <<3, 1>>},
                  y \in {Zero, <<100, 1>>, <<3171, 10>>, <<50000, 1>>}},
        frequency \in {Rat(1, 10), Rat(1, 2), One, <<2, 1>>} :
       ret' = [fn |-> "snow_conductivity", lwc |-> lwc,
               permittivity |-> permittivity, frequency |-> frequency,
               out |-> snow_conductivity(lwc, permittivity, frequency)]
  /\ UNCHANGED pipeline

SpecSnowConductivity == InitCalls /\ [][CallSnowConductivity \/ Return]_vars

\* C14: snow_conductivity called with a liquid-water content and a
\* permittivity that is omitted or real-valued does not raise: it returns a
\* diagonal 3x3 conductivity tensor.
C14_ConductivityFromWaterContent ==
  (ret.fn = "snow_conductivity" /\ "im" \notin DOMAIN ret.permittivity) =>
    /\ "error" \notin DOMAIN ret.out
    /\ \A i \in Idx(3), j \in Idx(3) : i # j => ret.out[i][j] = Zero

(***************************************************************************)
(* anisotropic_boolean(im, matbool, angvect).  im is an m-by-n grid of     *)
(* material IDs; a file name is the sequence of its characters.            *)
(***************************************************************************)
MaxGridRows == 2
MaxGridCols == 2

MaterialIDs == {0, 1}

\* The m-by-n arrays with cells in S
Grids(m, n, S) == [Idx(m) -> [Idx(n) -> S]]

\* An assignment to a cell of an array of dtype '<U1', which
\* np.zeros([m,n], dtype = str) allocates: the string is cut to one character.
StoreU1(name) == IF Len(name) <= 1 THEN name ELSE SubSeq(name, 1, 1)

IsTrueWord(word) == word = "true" \/ word = "TRUE" \/ word = "True"

\* afile[i,j] after the pass over cell (i,j): the empty string of np.zeros
\* unless the cell is anisotropic
AngularFileCell(flag, name) == IF flag THEN StoreU1(name) ELSE <<>>

anisotropic_boolean(im, matbool, angvect) ==
  [anisotropic |-> [i \in DOMAIN im |-> [j \in DOMAIN im[i] |->
                      IsTrueWord(matbool[im[i][j]])]],
   afile |-> [i \in DOMAIN im |-> [j \in DOMAIN im[i] |->
                AngularFileCell(IsTrueWord(matbool[im[i][j]]), angvect[im[i][j]])]]]

CallAnisotropicBoolean ==
  /\ ret = NoCall
  /\ \E m \in 1..MaxGridRows, n \in 1..MaxGridCols :
       \E im \in Grids(m, n, MaterialIDs),
          matbool \in [MaterialIDs -> {"true", "TRUE", "True", "false", "yes"}],
          angvect \in [MaterialIDs -> {<<>>, <<"a">>, <<"a", ".", "a", "n", "g">>}] :
         ret' = [fn |-> "anisotropic_boolean", im |-> im, matbool |-> matbool,
                 angvect |-> angvect,
                 out |-> anisotropic_boolean(im, matbool, angvect)]
  /\ UNCHANGED pipeline

SpecAnisotropicBoolean == InitCalls /\ [][CallAnisotropicBoolean \/ Return]_vars

\* C15: for every cell (i,j), anisotropic[i,j] is true exactly when
\* matbool[im[i,j]] is 'true', 'TRUE' or 'True', and afile[i,j] is the whole
\* name angvect[im[i,j]] when the cell is anisotropic and the empty string
\* otherwise.
C15_FlagsAndFileNames ==
  ret.fn = "anisotropic_boolean" =>
    \A i \in DOMAIN ret.im : \A j \in DOMAIN ret.im[i] :
      /\ ret.out.anisotropic[i][j] = (ret.matbool[ret.im[i][j]] \in {"true", "TRUE", "True"})
      /\ ret.out.afile[i][j] = IF ret.out.anisotropic[i][j]
                               THEN ret.angvect[ret.im[i][j]]
                               ELSE <<>>

(***************************************************************************)
(* pressure_array(im, temp, rho, dz, porosity, lwc).  temp is an array     *)
(* indexed by material ID or an array of the shape of im; its shape is the *)
(* pair of its dimensions, <<k>> or <<m, n>>.                              *)
(***************************************************************************)
\* np.nan as a quotient: 0/0
np_nan == <<0, 0>>

UnboundLocalError == [error |-> "UnboundLocalError"]

\* 9.80665
StandardGravity == Rat(980665, 100000)

\* density[i,j]: porewater_correction(temperature[i,j], rho[im[i,j]],
\* porosity[im[i,j]], lwc[im[i,j]])[0], with temperature[i,j] = temp[im[i,j]]
GridDensity(im, temp, rho, porosity, lwc) ==
  [i \in DOMAIN im |-> [j \in DOMAIN im[i] |->
     porewater_correction(temp[im[i][j]], rho[im[i][j]], porosity[im[i][j]],
                          lwc[im[i][j]]).density]]

\* density[0,j] + ... + density[i-1,j]
RECURSIVE SumAbove(_, _, _)
SumAbove(density, i, j) ==
  IF i = 0 THEN Zero ELSE RAdd(SumAbove(density, i - 1, j), density[i - 1][j])

\* np.mean(density[0:i,j]) * 9.80665 * i * dz; the mean of the empty slice
\* density[0:0,j] is nan, and nan * 0 is nan
HydrostaticPressure(density, i, j, dz) ==
  IF i = 0
  THEN np_nan
  ELSE RMul(RMul(RMul(RDiv(SumAbove(density, i, j), Int2Rat(i)), StandardGravity),
                 Int2Rat(i)), dz)

\* The three arrays after the loops, for a grid that has a cell
PressureArrays(im, temp, density, dz) ==
  [temperature |-> [i \in DOMAIN im |-> [j \in DOMAIN im[i] |-> temp[im[i][j]]]],
   density |-> density,
   pressure |-> [i \in DOMAIN im |-> [j \in DOMAIN im[i] |->
                   HydrostaticPressure(density, i, j, dz)]]]

\* temperature is allocated only if temp.shape differs from im.shape;
\* otherwise the first assignment temperature[i,j] = ... finds no such local
pressure_array(im, shape, temp, temp_shape, rho, dz, porosity, lwc) ==
  IF temp_shape = shape
  THEN UnboundLocalError
  ELSE PressureArrays(im, temp, GridDensity(im, temp, rho, porosity, lwc), dz)

GridTemperatures == {-10, 20}

\* The call with temp indexed by material ID
CallPressureArray ==
  /\ ret = NoCall
  /\ \E m \in 1..MaxGridRows, n \in 1..MaxGridCols :
       \E im \in Grids(m, n, MaterialIDs),
          temp \in [MaterialIDs -> GridTemperatures],
          rho \in [MaterialIDs -> {<<917, 1>>, <<1000, 1>>}],
          dz \in {One, <<2, 1>>} :
         ret' = [fn |-> "pressure_array", im |-> im, shape |-> <<m, n>>,
                 temp |-> temp, temp_shape |-> <<Cardinality(MaterialIDs)>>,
                 rho |-> rho, dz |-> dz,
                 out |-> pressure_array(im, <<m, n>>, temp,
                                        <<Cardinality(MaterialIDs)>>, rho, dz,
                                        [k \in MaterialIDs |-> Zero],
                                        [k \in MaterialIDs |-> Zero])]
  /\ UNCHANGED pipeline

\* The call with temp of the shape of im
CallPressureArrayOnGrid ==
  /\ ret = NoCall
  /\ \E m \in 1..MaxGridRows, n \in 1..MaxGridCols :
       \E im \in Grids(m, n, MaterialIDs),
          temp \in Grids(m, n, GridTemperatures),
          rho \in [MaterialIDs -> {<<917, 1>>, <<1000, 1>>}] :
         ret' = [fn |-> "pressure_array", im |-> im, shape |-> <<m, n>>,
                 temp |-> temp, temp_shape |-> <<m, n>>, rho |-> rho, dz |-> One,
                 out |-> pressure_array(im, <<m, n>>, temp, <<m, n>>, rho, One,
                                        [k \in MaterialIDs |-> Zero],
                                        [k \in MaterialIDs |-> Zero])]
  /\ UNCHANGED pipeline

SpecPressureArray ==
  InitCalls /\ [][CallPressureArray \/ CallPressureArrayOnGrid \/ Return]_vars

\* C16: pressure_array completes without error and returns three m-by-n
\* arrays with a defined number at every grid point, the top row i = 0
\* included, whether temp is indexed by material ID or has the shape of im.
C16_DefinedEverywhere ==
  ret.fn = "pressure_array" =>
    /\ "error" \notin DOMAIN ret.out
    /\ \A i \in DOMAIN ret.im : \A j \in DOMAIN ret.im[i] :
         /\ ret.out.temperature[i][j] \in GridTemperatures
         /\ ret.out.density[i][j] # np_nan
         /\ ret.out.pressure[i][j] # np_nan

\* The pass that ran last reached the assignment of its record.
C17_Assembled ==
  /\ last.routine \in {"get_seismic", "get_perm"}
  /\ "error" \notin DOMAIN last

\* C17: in get_seismic and in get_perm, a pass over a sample whose
\* anisotropic flag is set reads the sample's orientation file and
\* homogenizes the tensor over it before the record is assembled, and a
\* pass over a sample whose flag is not set reads no orientation file.
C17_FlaggedSampleIsHomogenized ==
  C17_Assembled => last.read = material[last.ind + 1].is_anisotropic

\* The pass of get_perm that ran last handled a sample of snow.
C18_Case ==
  /\ last.routine = "get_perm"
  /\ "error" \notin DOMAIN last
  /\ last.branch = "snow"
  /\ ~last.read

\* snow_permittivity of the sample with the sample's own bulk density
C18_OwnDensity(sample) ==
  snow_permittivity(sample.rho, sample.temp, sample.lwc, sample.porosity, f0,
                    "shivola-tiuri").permittivity

\* C18: for a sample of snow, get_perm computes the permittivity and the
\* conductivity from the sample's own bulk density: the density corrected for
\* pore water inside snow_permittivity is the density of the sample.
C18_SnowUsesOwnDensity ==
  C18_Case =>
    /\ last.permittivity = C18_OwnDensity(material[last.ind + 1]).re
    /\ last.conductivity =
         snow_conductivity("None", C18_OwnDensity(material[last.ind + 1]), f0)

\* The pass of get_seismic that ran last reached the assignment of its row.
C19_Case ==
  /\ last.routine = "get_seismic"
  /\ "error" \notin DOMAIN last

\* The numbers of the conditions whose own value is greater than zero
C19_Failed ==
  {k \in 1 .. 3 : RGt(CASE k = 1 -> last.cond1
                        [] k = 2 -> last.cond2
                        [] k = 3 -> last.cond3, Zero)}

\* C19: the diagnostics never change the outcome.  In a pass of get_seismic
\* condition k of highfreq_stability_conditions is reported exactly when its
\* own value is greater than zero, the check ends in no exception, and the
\* record written is the row of the rounded tensor the branch left, with the
\* corrected density, whatever the conditions and the test of the
\* eigenvalues reported.
C19_DiagnosticsChangeNothing ==
  C19_Case =>
    /\ last.conditions = C19_Failed
    /\ last.C = RoundedTensor(last.unrounded)
    /\ last.row = StiffnessRow(RoundedTensor(last.unrounded), last.density)
    /\ stiffness_coefficients[last.ind] = last.row

\* A pass that reported more than one failed condition and wrote its record.
C19_Witness ==
  /\ C19_Case
  /\ Cardinality(last.conditions) >= 2
  /\ stiffness_coefficients[last.ind] = last.row

(***************************************************************************)
(* One record per index.                                                   *)
(***************************************************************************)
\* The indices 0 .. k-1
C20_Upto(k) == 0 .. k - 1

\* The rows a routine has written while it runs, after it has returned
\* having completed, and before it is called
C20_Written(routine, table) ==
  DOMAIN table =
    IF pc = routine THEN C20_Upto(ind)
    ELSE IF routine \in done /\ raised[routine] = "none" THEN C20_Upto(Len(material))
    ELSE IF routine \notin done THEN {}
    ELSE DOMAIN table

C20_Tables ==
  /\ C20_Written("get_seismic", stiffness_coefficients)
  /\ C20_Written("get_perm", permittivity_coefficients)
  /\ C20_Written("get_perm", conductivity_coefficients)

\* table' is table with one more row, at ind, the rows before it being the
\* rows 0 .. ind-1 unchanged
C20_Appends(table, after, row) ==
  /\ DOMAIN table = C20_Upto(ind)
  /\ DOMAIN after = C20_Upto(ind + 1)
  /\ \A k \in DOMAIN table : after[k] = table[k]
  /\ after[ind] = row

\* A step that changes a record table is a pass of the loop of the routine
\* that owns the table; it writes the row of index ind, computed from sample
\* ind alone, after the rows of the lower indices and without changing them,
\* and leaves the tables of the other routine as they are.
C20_Pass ==
  /\ material' = material
  /\ stiffness_coefficients' # stiffness_coefficients =>
       /\ pc = "get_seismic"
       /\ C20_Appends(stiffness_coefficients, stiffness_coefficients',
                      SeismicBody(material[ind + 1]).row)
       /\ UNCHANGED <<permittivity_coefficients, conductivity_coefficients>>
  /\ (permittivity_coefficients' # permittivity_coefficients
      \/ conductivity_coefficients' # conductivity_coefficients) =>
       /\ pc = "get_perm"
       /\ C20_Appends(permittivity_coefficients, permittivity_coefficients',
                      PermBody(material[ind + 1]).permittivity_row)
       /\ C20_Appends(conductivity_coefficients, conductivity_coefficients',
                      PermBody(material[ind + 1]).conductivity_row)
       /\ UNCHANGED stiffness_coefficients

\* C20: a run of get_seismic (of get_perm) over m samples that completes has
\* written one stiffness record (one permittivity and one conductivity
\* record) at each index 0..m-1, in increasing order of the index; writing
\* the record of index i changes no other record, and the record is the one
\* computed from sample i, which no step modifies.
C20_OneRecordPerIndex == [](C20_Tables) /\ [][C20_Pass]_vars

\* Both routines completed over two different samples and left two records
\* in each table.
C20_Witness ==
  /\ pc = "idle" /\ done = {"get_seismic", "get_perm"}
  /\ raised = [get_seismic |-> "none", get_perm |-> "none"]
  /\ Len(material) = 2 /\ material[1] # material[2]
  /\ DOMAIN stiffness_coefficients = {0, 1}
  /\ DOMAIN permittivity_coefficients = {0, 1}
  /\ DOMAIN conductivity_coefficients = {0, 1}
  /\ stiffness_coefficients[0] # stiffness_coefficients[1]

(***************************************************************************)
(* An ensemble of one orientation.                                         *)
(***************************************************************************)
\* The single-crystal tensor rotated by the orientation: R*P*R^T in the
\* loop of get_perm, M*C*M^T in the loop of get_seismic
C21_Rotated ==
  IF ret.routine = "get_perm"
  THEN MatMul(ret.R[1], MatMul(ret.C, Transpose(ret.R[1])))
  ELSE MatMul(ret.M[1], MatMul(ret.C, Transpose(ret.M[1])))

\* C21: for an ensemble of exactly one orientation, whatever its Euler
\* angles, the Voigt and the Reuss estimate coincide and the Hill result is
\* the single-crystal tensor rotated by that orientation, for every
\* single-crystal tensor np.linalg.inv accepts.
C21_SingleOrientation ==
  (ret.fn = "homogenize" /\ Len(ret.euler) = 1 /\ Inv(ret.C) # LinAlgError)
    => /\ ret.out # LinAlgError
       /\ ret.out.voigt = ret.out.reuss
       /\ ret.out.hill = C21_Rotated

====
